---- MODULE Spec2Model ----
(***************************************************************************)
(* GC9A01 display driver (lib/gc9a01/gc9a01_driver.c) on top of the        *)
(* CH32v003 transport adapter (lib/lcd_hal/lcd_hal.c).                     *)
(*                                                                         *)
(* A driver call is a straight-line program of HAL calls (its control flow *)
(* depends on its arguments only, never on the hardware), so each driver   *)
(* function is an operator returning the sequence of HAL calls it makes,   *)
(* and the machine executes one HAL call per step.  The observable is the  *)
(* trace of the current call: every signal write, every byte handed to     *)
(* LCD_HAL_SPI_WriteByte and every busy-wait, each stamped with the levels *)
(* of the lines and with the delay requested so far (simulated clock, us). *)
(***************************************************************************)
EXTENDS Integers, Sequences, FiniteSets, TLC

(***************************************************************************)
(* Program constants.                                                      *)
(***************************************************************************)
LCD_WIDTH == 240
LCD_HEIGHT == 240
LCD_GPIO_INVERTED == 0
SPI_TIMEOUT == 100000
U16 == 65536

LCD_RST_PIN == "RST"
LCD_DC_PIN == "DC"
LCD_CS_PIN == "CS"
LCD_BL_PIN == "BL"
Pins == {LCD_RST_PIN, LCD_DC_PIN, LCD_CS_PIN, LCD_BL_PIN}

(***************************************************************************)
(* Bounds and input sets.                                                  *)
(***************************************************************************)
\* largest number of pixels of a FillRect the model executes
MaxPixels == 6
\* longest buffer handed to LCD_HAL_SPI_WriteBytes
MaxBytes == 2
MaxFills == 1
\* buffer lengths tried: the empty buffer and the longest one
Lengths == {0, MaxBytes}

XCoords == {0, 238, 239, 240, 300}
YCoords == {0, 237, 239, 240, 310}
ExampleRects == { <<50, 50, 50, 80>>, <<10, 300, 20, 310>>, <<0, 0, 240, 240>>,
                  <<10, 10, 20, 20>>, <<237, 238, 65535, 241>> }
FillRects == (XCoords \X YCoords \X XCoords \X YCoords) \cup ExampleRects
WinRects == ({0, 239, 240, 300} \X {0, 240, 310} \X {0, 239, 240, 300} \X {0, 240, 310})
               \cup ExampleRects
Colors == {\hF800, \h07E0, \h2C2B}

(***************************************************************************)
(* Behaviour of the SPI status flags during one driver call:               *)
(*   ok         TXE reads set on the first poll, BSY clears within budget  *)
(*   txe_late   TXE first reads set on the poll made when timeout is 0     *)
(*   txe_stuck  TXE never reads set                                        *)
(*   bsy_stuck  BSY never reads clear after a byte was written             *)
(***************************************************************************)
SpiModes == {"ok", "txe_late", "txe_stuck", "bsy_stuck"}

VARIABLES pins, busy, clock, trace, ph, op, args, prog, pc, entry, spi, hal, scn, gpio, ctx, lcd, presc
vars == <<pins, busy, clock, trace, ph, op, args, prog, pc, entry, spi, hal, scn, gpio, ctx, lcd, presc>>

(***************************************************************************)
(* HAL calls, as the driver issues them.                                   *)
(***************************************************************************)
DigitalWrite(Pin, Value) == [h |-> "DigitalWrite", pin |-> Pin, v |-> Value, src |-> ""]
Delay_us(us) == [h |-> "Delay", pin |-> "", v |-> us, src |-> ""]
Delay_ms(ms) == [h |-> "Delay", pin |-> "", v |-> ms * 1000, src |-> ""]
WriteByte(Value, src) == [h |-> "WriteByte", pin |-> "", v |-> Value % 256, src |-> src]
WaitBSY == [h |-> "WaitBSY", pin |-> "", v |-> 0, src |-> ""]

(***************************************************************************)
(* Driver: communication layer.                                            *)
(***************************************************************************)
\* GC9A01_SendCommand without the command-mode selection
GC9A01_SendCommand_NoDC(cmd) ==
    << DigitalWrite(LCD_CS_PIN, 0), Delay_us(1),
       Delay_us(1),
       WriteByte(cmd, "cmd"), Delay_us(1) >>

GC9A01_SendCommand(cmd) ==
    << DigitalWrite(LCD_CS_PIN, 0), Delay_us(1),
       DigitalWrite(LCD_DC_PIN, 0), Delay_us(1),
       WriteByte(cmd, "cmd"), Delay_us(1) >>

GC9A01_SendData(data) ==
    << DigitalWrite(LCD_DC_PIN, 1), Delay_us(1),
       WriteByte(data, "data"), Delay_us(1),
       DigitalWrite(LCD_CS_PIN, 1), Delay_us(10) >>

\* GC9A01_Reset holding the reset line low for 1 ms only
GC9A01_Reset_ShortPulse ==
    << DigitalWrite(LCD_CS_PIN, 0), Delay_ms(100),
       DigitalWrite(LCD_RST_PIN, 0), Delay_ms(1),
       DigitalWrite(LCD_RST_PIN, 1), Delay_ms(100) >>

\* GC9A01_Reset releasing chip-select when the reset is over
GC9A01_Reset_ReleaseChipSelect ==
    << DigitalWrite(LCD_CS_PIN, 0), Delay_ms(100),
       DigitalWrite(LCD_RST_PIN, 0), Delay_ms(100),
       DigitalWrite(LCD_RST_PIN, 1), Delay_ms(100),
       DigitalWrite(LCD_CS_PIN, 1) >>

\* GC9A01_Reset leaving the reset line low
GC9A01_Reset_HeldLow ==
    << DigitalWrite(LCD_CS_PIN, 0), Delay_ms(100),
       DigitalWrite(LCD_RST_PIN, 0), Delay_ms(100),
       DigitalWrite(LCD_RST_PIN, 0), Delay_ms(100) >>

GC9A01_Reset ==
    << DigitalWrite(LCD_CS_PIN, 0), Delay_ms(100),
       DigitalWrite(LCD_RST_PIN, 0), Delay_ms(100),
       DigitalWrite(LCD_RST_PIN, 1), Delay_ms(100) >>

(***************************************************************************)
(* Driver: initialization.  InitScript is the register script of           *)
(* GC9A01_InitRegisters up to command 0x21: one tuple per command, the     *)
(* command byte followed by the bytes sent with GC9A01_SendData.           *)
(***************************************************************************)
InitScript ==
    << <<\hEF>>,
       <<\hEB, \h14>>,
       <<\hFE>>,
       <<\hEF>>,
       <<\hEB, \h14>>,
       <<\h84, \h40>>,
       <<\h85, \hFF>>,
       <<\h86, \hFF>>,
       <<\h87, \hFF>>,
       <<\h88, \h0A>>,
       <<\h89, \h21>>,
       <<\h8A, \h00>>,
       <<\h8B, \h80>>,
       <<\h8C, \h01>>,
       <<\h8D, \h01>>,
       <<\h8E, \hFF>>,
       <<\h8F, \hFF>>,
       <<\hB6, \h00, \h20>>,
       <<\h36, \h08>>,
       <<\h3A, \h05>>,
       <<\h90, \h08, \h08, \h08, \h08>>,
       <<\hBD, \h06>>,
       <<\hBC, \h00>>,
       <<\hFF, \h60, \h01, \h04>>,
       <<\hC3, \h13>>,
       <<\hC4, \h13>>,
       <<\hC9, \h22>>,
       <<\hBE, \h11>>,
       <<\hE1, \h10, \h0E>>,
       <<\hDF, \h21, \h0C, \h02>>,
       <<\hF0, \h45, \h09, \h08, \h08, \h26, \h2A>>,
       <<\hF1, \h43, \h70, \h72, \h36, \h37, \h6F>>,
       <<\hF2, \h45, \h09, \h08, \h08, \h26, \h2A>>,
       <<\hF3, \h43, \h70, \h72, \h36, \h37, \h6F>>,
       <<\hED, \h1B, \h0B>>,
       <<\hAE, \h77>>,
       <<\hCD, \h63>>,
       <<\h70, \h07, \h07, \h04, \h0E, \h0F, \h09, \h07, \h08, \h03>>,
       <<\hE8, \h34>>,
       <<\h62, \h18, \h0D, \h71, \hED, \h70, \h70, \h18, \h0F, \h71, \hEF, \h70, \h70>>,
       <<\h63, \h18, \h11, \h71, \hF1, \h70, \h70, \h18, \h13, \h71, \hF3, \h70, \h70>>,
       <<\h64, \h28, \h29, \hF1, \h01, \hF1, \h00, \h07>>,
       <<\h66, \h3C, \h00, \hCD, \h67, \h45, \h45, \h10, \h00, \h00, \h00>>,
       <<\h67, \h00, \h3C, \h00, \h00, \h00, \h01, \h54, \h10, \h32, \h98>>,
       <<\h74, \h10, \h85, \h80, \h00, \h00, \h4E, \h00>>,
       <<\h98, \h3E, \h07>>,
       <<\h35>>,
       <<\h21>> >>

RECURSIVE SendDataRun(_)
SendDataRun(bytes) ==
    IF bytes = <<>> THEN <<>>
    ELSE GC9A01_SendData(Head(bytes)) \o SendDataRun(Tail(bytes))

RECURSIVE ReplayScript(_)
ReplayScript(script) ==
    IF script = <<>> THEN <<>>
    ELSE GC9A01_SendCommand(Head(script)[1]) \o SendDataRun(Tail(Head(script)))
            \o ReplayScript(Tail(script))

\* the end of the script with the sleep-out wait cut to 100 ms
SleepOutAndDisplayOn_ShortWait ==
    GC9A01_SendCommand(\h11) \o << Delay_ms(100) >>
       \o GC9A01_SendCommand(\h29) \o << Delay_ms(20) >>

SleepOutAndDisplayOn ==
    GC9A01_SendCommand(\h11) \o << Delay_ms(120) >>
       \o GC9A01_SendCommand(\h29) \o << Delay_ms(20) >>

GC9A01_InitRegisters == ReplayScript(InitScript) \o SleepOutAndDisplayOn

\* GC9A01_Init pulsing the reset line twice
GC9A01_Init_ResetTwice == GC9A01_Reset \o GC9A01_Reset \o GC9A01_InitRegisters

\* GC9A01_Init closing the last transaction
GC9A01_Init_ReleaseChipSelect ==
    GC9A01_Reset \o GC9A01_InitRegisters \o << DigitalWrite(LCD_CS_PIN, 1) >>

GC9A01_Init == GC9A01_Reset \o GC9A01_InitRegisters

(***************************************************************************)
(* Driver: window addressing and fill.                                     *)
(***************************************************************************)
\* GC9A01_SetWindow sending the exclusive end coordinates unchanged
GC9A01_SetWindow_ExclusiveEnd(x0, y0, x1, y1) ==
    GC9A01_SendCommand(\h2A)
       \o GC9A01_SendData(\h00) \o GC9A01_SendData(x0 % 256)
       \o GC9A01_SendData(\h00) \o GC9A01_SendData(x1 % 256)
       \o GC9A01_SendCommand(\h2B)
       \o GC9A01_SendData(\h00) \o GC9A01_SendData(y0 % 256)
       \o GC9A01_SendData(\h00) \o GC9A01_SendData(y1 % 256)
       \o GC9A01_SendCommand(\h2C)

\* GC9A01_SetWindow selecting data mode itself after the memory-write command
GC9A01_SetWindow_DataMode(x0, y0, x1, y1) ==
    GC9A01_SendCommand(\h2A)
       \o GC9A01_SendData(\h00) \o GC9A01_SendData(x0 % 256)
       \o GC9A01_SendData(\h00) \o GC9A01_SendData((x1 - 1) % 256)
       \o GC9A01_SendCommand(\h2B)
       \o GC9A01_SendData(\h00) \o GC9A01_SendData(y0 % 256)
       \o GC9A01_SendData(\h00) \o GC9A01_SendData((y1 - 1) % 256)
       \o GC9A01_SendCommand(\h2C) \o << DigitalWrite(LCD_DC_PIN, 1) >>

\* GC9A01_SetWindow sending the high byte of each coordinate
GC9A01_SetWindow_HighByte(x0, y0, x1, y1) ==
    GC9A01_SendCommand(\h2A)
       \o GC9A01_SendData(x0 \div 256) \o GC9A01_SendData(x0 % 256)
       \o GC9A01_SendData((x1 - 1) \div 256) \o GC9A01_SendData((x1 - 1) % 256)
       \o GC9A01_SendCommand(\h2B)
       \o GC9A01_SendData(y0 \div 256) \o GC9A01_SendData(y0 % 256)
       \o GC9A01_SendData((y1 - 1) \div 256) \o GC9A01_SendData((y1 - 1) % 256)
       \o GC9A01_SendCommand(\h2C)

\* GC9A01_SetWindow switching the backlight on first
GC9A01_SetWindow_BacklightOn(x0, y0, x1, y1) ==
    << DigitalWrite(LCD_BL_PIN, 1) >>
       \o GC9A01_SendCommand(\h2A)
       \o GC9A01_SendData(\h00) \o GC9A01_SendData(x0 % 256)
       \o GC9A01_SendData(\h00) \o GC9A01_SendData((x1 - 1) % 256)
       \o GC9A01_SendCommand(\h2B)
       \o GC9A01_SendData(\h00) \o GC9A01_SendData(y0 % 256)
       \o GC9A01_SendData(\h00) \o GC9A01_SendData((y1 - 1) % 256)
       \o GC9A01_SendCommand(\h2C)

GC9A01_SetWindow(x0, y0, x1, y1) ==
    GC9A01_SendCommand(\h2A)
       \o GC9A01_SendData(\h00) \o GC9A01_SendData(x0 % 256)
       \o GC9A01_SendData(\h00) \o GC9A01_SendData((x1 - 1) % 256)
       \o GC9A01_SendCommand(\h2B)
       \o GC9A01_SendData(\h00) \o GC9A01_SendData(y0 % 256)
       \o GC9A01_SendData(\h00) \o GC9A01_SendData((y1 - 1) % 256)
       \o GC9A01_SendCommand(\h2C)

\* ClampRect without the test for an empty rectangle after clamping
ClampRect_NoEmptyCheck(x0, y0, x1, y1) ==
    IF x0 >= LCD_WIDTH \/ y0 >= LCD_HEIGHT THEN <<>>
    ELSE LET cx1 == IF x1 > LCD_WIDTH THEN LCD_WIDTH ELSE x1
             cy1 == IF y1 > LCD_HEIGHT THEN LCD_HEIGHT ELSE y1
         IN  <<x0, y0, cx1, cy1>>

\* ClampRect clamping to the last pixel instead of the exclusive bound
ClampRect_ClampToLast(x0, y0, x1, y1) ==
    IF x0 >= LCD_WIDTH \/ y0 >= LCD_HEIGHT THEN <<>>
    ELSE LET cx1 == IF x1 > LCD_WIDTH THEN LCD_WIDTH - 1 ELSE x1
             cy1 == IF y1 > LCD_HEIGHT THEN LCD_HEIGHT - 1 ELSE y1
         IN  IF x0 >= cx1 \/ y0 >= cy1 THEN <<>> ELSE <<x0, y0, cx1, cy1>>

\* ClampRect letting a rectangle of width 0 through
ClampRect_EmptyCheckOffByOne(x0, y0, x1, y1) ==
    IF x0 >= LCD_WIDTH \/ y0 >= LCD_HEIGHT THEN <<>>
    ELSE LET cx1 == IF x1 > LCD_WIDTH THEN LCD_WIDTH ELSE x1
             cy1 == IF y1 > LCD_HEIGHT THEN LCD_HEIGHT ELSE y1
         IN  IF x0 > cx1 \/ y0 >= cy1 THEN <<>> ELSE <<x0, y0, cx1, cy1>>

\* the clamped rectangle of GC9A01_FillRect, <<>> when the call returns early
ClampRect(x0, y0, x1, y1) ==
    IF x0 >= LCD_WIDTH \/ y0 >= LCD_HEIGHT THEN <<>>
    ELSE LET cx1 == IF x1 > LCD_WIDTH THEN LCD_WIDTH ELSE x1
             cy1 == IF y1 > LCD_HEIGHT THEN LCD_HEIGHT ELSE y1
         IN  IF x0 >= cx1 \/ y0 >= cy1 THEN <<>> ELSE <<x0, y0, cx1, cy1>>

ColorMSB(color) == (color \div 256) % 256
ColorLSB(color) == color % 256

RECURSIVE RowLoop_Inclusive(_, _, _, _)
\* RowLoop with an inclusive loop bound
RowLoop_Inclusive(row, height, msb, lsb) ==
    IF row <= height
    THEN << WriteByte(msb, "pix"), WriteByte(lsb, "pix") >>
            \o RowLoop_Inclusive(row + 1, height, msb, lsb)
    ELSE <<>>

RECURSIVE RowLoop(_, _, _, _)
RowLoop(row, height, msb, lsb) ==
    IF row < height
    THEN << WriteByte(msb, "pix"), WriteByte(lsb, "pix") >> \o RowLoop(row + 1, height, msb, lsb)
    ELSE <<>>

RECURSIVE ColLoop(_, _, _, _, _)
ColLoop(col, width, height, msb, lsb) ==
    IF col < width
    THEN RowLoop(0, height, msb, lsb) \o ColLoop(col + 1, width, height, msb, lsb)
    ELSE <<>>

\* PixelBurst selecting data mode before every pixel instead of once
PixelBurst_DataModePerPixel(r, color) ==
    LET width == (r[3] - r[1]) % U16
        height == (r[4] - r[2]) % U16
        px == << DigitalWrite(LCD_DC_PIN, 1),
                 WriteByte(ColorMSB(color), "pix"), WriteByte(ColorLSB(color), "pix") >>
    IN  [i \in 1..(3 * width * height) |-> px[((i - 1) % 3) + 1]]
           \o << WaitBSY, DigitalWrite(LCD_CS_PIN, 1) >>

\* PixelBurst giving up, chip-select still low, when the transport stays busy
PixelBurst_AbandonWhenBusy(r, color) ==
    LET width == (r[3] - r[1]) % U16
        height == (r[4] - r[2]) % U16
    IN  << DigitalWrite(LCD_DC_PIN, 1) >>
           \o ColLoop(0, width, height, ColorMSB(color), ColorLSB(color))
           \o << WaitBSY >>

PixelBurst(r, color) ==
    LET width == (r[3] - r[1]) % U16
        height == (r[4] - r[2]) % U16
    IN  << DigitalWrite(LCD_DC_PIN, 1) >>
           \o ColLoop(0, width, height, ColorMSB(color), ColorLSB(color))
           \o << WaitBSY, DigitalWrite(LCD_CS_PIN, 1) >>

\* GC9A01_FillRect setting the window of the rectangle as passed, not as clamped
GC9A01_FillRect_WindowUnclamped(x0, y0, x1, y1, color) ==
    LET r == ClampRect(x0, y0, x1, y1)
    IN  IF r = <<>> THEN <<>>
        ELSE GC9A01_SetWindow(x0, y0, x1, y1) \o PixelBurst(r, color)

GC9A01_FillRect(x0, y0, x1, y1, color) ==
    LET r == ClampRect(x0, y0, x1, y1)
    IN  IF r = <<>> THEN <<>>
        ELSE GC9A01_SetWindow(r[1], r[2], r[3], r[4]) \o PixelBurst(r, color)

\* number of pixels GC9A01_FillRect streams for these arguments
PixelCount(x0, y0, x1, y1) ==
    LET r == ClampRect(x0, y0, x1, y1)
    IN  IF r = <<>> THEN 0 ELSE ((r[3] - r[1]) % U16) * ((r[4] - r[2]) % U16)

(***************************************************************************)
(* Transport adapter: the effect of one HAL call on the device state       *)
(* s = [pins, busy, clock, trace] under flag behaviour m.                  *)
(***************************************************************************)
Event(k, pin, v, src, sent, s) ==
    [k |-> k, pin |-> pin, v |-> v, src |-> src, sent |-> sent,
     cs |-> s.pins[LCD_CS_PIN], dc |-> s.pins[LCD_DC_PIN], rst |-> s.pins[LCD_RST_PIN],
     busy |-> s.busy, t |-> s.clock]

\* DigitalWriteLevel taking only Value 1 for high
DigitalWriteLevel_OnlyOne(inverted, Value) ==
    IF inverted # 0
    THEN (IF Value = 1 THEN 0 ELSE 1)
    ELSE (IF Value = 1 THEN 1 ELSE 0)

\* level LCD_HAL_DigitalWrite drives for a requested Value in the build with
\* LCD_GPIO_INVERTED set to inverted
DigitalWriteLevel(inverted, Value) ==
    IF inverted # 0
    THEN (IF Value # 0 THEN 0 ELSE 1)
    ELSE (IF Value # 0 THEN 1 ELSE 0)

\* level driven on the pin for a requested Value
LCD_HAL_DigitalWrite(Value) == DigitalWriteLevel(LCD_GPIO_INVERTED, Value)

\* polls of the transmit-ready wait that read TXE clear before it reads set
TxeClearPolls(m) ==
    CASE m = "txe_late" -> SPI_TIMEOUT
      [] m = "txe_stuck" -> SPI_TIMEOUT + 1
      [] OTHER -> 0

\* value of `timeout` when `while(!TXE && timeout--) {}` exits, TXE reading
\* clear on the first d polls: each of these polls decrements timeout
\* unless it is already 0, in which case the loop exits and the
\* post-decrement wraps the uint32_t to 0xFFFFFFFF (written -1 here, the
\* same bit pattern read as a signed 32-bit integer: the code only compares
\* the value with 0)
TimeoutAfterTxeWait(d) ==
    IF d <= SPI_TIMEOUT THEN SPI_TIMEOUT - d ELSE 0 - 1

LCD_HAL_SPI_WriteByte(s, Value, src, m) ==
    IF TimeoutAfterTxeWait(TxeClearPolls(m)) = 0
    THEN [s EXCEPT !.trace = Append(@, Event("byte", "", Value, src, FALSE, s))]
    ELSE LET w == [s EXCEPT !.busy = (m = "bsy_stuck")]
         IN  [w EXCEPT !.trace = Append(@, Event("byte", "", Value, src, TRUE, s))]

\* the BSY wait at the end of GC9A01_FillRect
SPI_WaitBSY(s, m) ==
    LET w == [s EXCEPT !.busy = (s.busy /\ m = "bsy_stuck")]
    IN  [w EXCEPT !.trace = Append(@, Event("wait", "", 0, "", ~w.busy, w))]

Exec(s, c, m) ==
    CASE c.h = "DigitalWrite" ->
            LET w == [s EXCEPT !.pins[c.pin] = LCD_HAL_DigitalWrite(c.v)]
            IN  [w EXCEPT !.trace = Append(@, Event("pin", c.pin, c.v, "", FALSE, w))]
      [] c.h = "Delay" -> [s EXCEPT !.clock = @ + c.v]
      [] c.h = "WriteByte" -> LCD_HAL_SPI_WriteByte(s, c.v, c.src, m)
      [] c.h = "WaitBSY" -> SPI_WaitBSY(s, m)

RECURSIVE Run(_, _, _)
\* the device state after all the HAL calls of calls
Run(calls, s, m) ==
    IF calls = <<>> \/ s.clock < 0 THEN s ELSE Run(Tail(calls), Exec(s, Head(calls), m), m)


(***************************************************************************)
(* The busy-wait loops, one status-register poll per step.  hal is the     *)
(* frame of the running function: timeout is its local uint32_t, polls     *)
(* counts the reads of SPI1->STATR made by the current loop, txe is the    *)
(* reading of the TXE bit by the last poll of the wait for TXE (kept up to *)
(* the test of timeout that follows the wait), bsy the last reading of the *)
(* BSY bit, wrote tells whether SPI1->DATAR was written by the current     *)
(* LCD_HAL_SPI_WriteByte, i and len are the loop index and Length of       *)
(* LCD_HAL_SPI_WriteBytes, cs is the chip-select level.  The hardware may  *)
(* answer every poll either way.                                           *)
(***************************************************************************)
HalIdle ==
    [fn |-> "none", pc |-> "idle", timeout |-> 0, polls |-> 0, txe |-> FALSE,
     bsy |-> FALSE, wrote |-> FALSE, i |-> 0, len |-> 0, cs |-> 1]

\* `timeout--` on a uint32_t: 0 wraps to 0xFFFFFFFF, written -1
PostDecrement_Sticky(t) == t
PostDecrement(t) == IF t = 0 THEN 0 - 1 ELSE t - 1

\* `SPI1->STATR & (1 << 7)` of LCD_HAL_SPI_WriteByte: the wait goes on while BSY reads set
WriteByte_Busy_Inverted(b) == ~b
WriteByte_Busy(b) == b

\* `SPI1->STATR & (1 << 7)` of GC9A01_FillRect
FillRect_Busy_Inverted(b) == ~b
FillRect_Busy(b) == b

\* `if(timeout == 0) return;`
WriteByte_TimedOut(t) == t = 0

\* entry of LCD_HAL_SPI_WriteByte in frame h: `uint32_t timeout = 100000;`
WriteByte_Enter(h) ==
    [h EXCEPT !.pc = "txe_wait", !.timeout = SPI_TIMEOUT, !.polls = 0,
              !.txe = FALSE, !.bsy = FALSE, !.wrote = FALSE]

\* one evaluation of `cond && timeout--` in frame h, cond being the truth of
\* the status test: the loop goes on at pc again, or is left for pc next
BusyWaitPoll(h, cond, again, next) ==
    IF ~cond
    THEN [h EXCEPT !.polls = @ + 1, !.pc = next]
    ELSE [h EXCEPT !.polls = @ + 1, !.timeout = PostDecrement(@),
                   !.pc = IF h.timeout # 0 THEN again ELSE next]


(***************************************************************************)
(* The driver functions statement by statement, for fills too long to be   *)
(* held as a sequence of calls.  A frame is the position of a running      *)
(* function: pc, the index k in its straight-line part (the calls of       *)
(* GC9A01_Init, or of GC9A01_SetWindow for the clamped rectangle r), and   *)
(* the loop counters col and row of GC9A01_FillRect.                       *)
(***************************************************************************)
DoneFrame == [pc |-> "done", k |-> 0, r |-> <<0, 0, 0, 0>>, color |-> 0, col |-> 0, row |-> 0]
NoCall == [h |-> "none", pin |-> "", v |-> 0, src |-> ""]

Init_Frame == [DoneFrame EXCEPT !.pc = "script", !.k = 1]

\* GC9A01_FillRect up to the call of GC9A01_SetWindow
FillRect_Frame(x0, y0, x1, y1, color) ==
    LET r == ClampRect(x0, y0, x1, y1)
    IN  IF r = <<>> THEN DoneFrame
        ELSE [DoneFrame EXCEPT !.pc = "window", !.k = 1, !.r = r, !.color = color]

\* GC9A01_FillScreen passing the last pixel instead of the exclusive bound
GC9A01_FillScreen_InclusiveEnd(color) ==
    FillRect_Frame(0, 0, LCD_WIDTH - 1, LCD_HEIGHT - 1, color)

GC9A01_FillScreen(color) == FillRect_Frame(0, 0, LCD_WIDTH, LCD_HEIGHT, color)

Width(f) == (f.r[3] - f.r[1]) % U16
Height(f) == (f.r[4] - f.r[2]) % U16

\* the straight-line calls frame f is replaying
Straight(f) ==
    IF f.pc = "script" THEN GC9A01_Init
    ELSE GC9A01_SetWindow(f.r[1], f.r[2], f.r[3], f.r[4])

\* the HAL call made at frame f
FrameCall(f) ==
    CASE f.pc \in {"script", "window"} -> Straight(f)[f.k]
      [] f.pc = "dc" -> DigitalWrite(LCD_DC_PIN, 1)
      [] f.pc = "msb" -> WriteByte(ColorMSB(f.color), "pix")
      [] f.pc = "lsb" -> WriteByte(ColorLSB(f.color), "pix")
      [] f.pc = "wait" -> WaitBSY
      [] f.pc = "cs" -> DigitalWrite(LCD_CS_PIN, 1)
      [] OTHER -> NoCall

RECURSIVE ColTest(_, _)
\* `col < width`, then `row = 0; row < height`
ColTest(f, col) ==
    IF col < Width(f)
    THEN IF 0 < Height(f) THEN [f EXCEPT !.pc = "msb", !.col = col, !.row = 0]
         ELSE ColTest(f, (col + 1) % U16)
    ELSE [f EXCEPT !.pc = "wait"]

\* RowNext with an inclusive loop bound
RowNext_Inclusive(f) ==
    LET row == (f.row + 1) % U16
    IN  IF row <= Height(f) THEN [f EXCEPT !.pc = "msb", !.row = row]
        ELSE ColTest(f, (f.col + 1) % U16)

\* `row++`, `row < height`, and `col++` when the inner loop is over
RowNext(f) ==
    LET row == (f.row + 1) % U16
    IN  IF row < Height(f) THEN [f EXCEPT !.pc = "msb", !.row = row]
        ELSE ColTest(f, (f.col + 1) % U16)

\* the frame after the call made at f
FrameStep(f) ==
    CASE f.pc = "script" ->
            IF f.k < Len(Straight(f)) THEN [f EXCEPT !.k = @ + 1] ELSE DoneFrame
      [] f.pc = "window" ->
            IF f.k < Len(Straight(f)) THEN [f EXCEPT !.k = @ + 1] ELSE [f EXCEPT !.pc = "dc"]
      [] f.pc = "dc" -> ColTest(f, 0)
      [] f.pc = "msb" -> [f EXCEPT !.pc = "lsb"]
      [] f.pc = "lsb" -> RowNext(f)
      [] f.pc = "wait" -> [f EXCEPT !.pc = "cs"]
      [] f.pc = "cs" -> DoneFrame
      [] OTHER -> f

RECURSIVE Unroll(_)
\* all the calls made from frame f on
Unroll(f) == IF f.pc = "done" THEN <<>> ELSE <<FrameCall(f)>> \o Unroll(FrameStep(f))

\* the calls of the demonstration: initialise, red screen, green square
ScenarioCalls == 3
Scenario(n) ==
    CASE n = 1 -> Init_Frame
      [] n = 2 -> GC9A01_FillScreen(\hF800)
      [] OTHER -> FillRect_Frame(10, 10, 20, 20, \h07E0)

ScnIdle ==
    [mode |-> "idle", stage |-> 0, a |-> DoneFrame, b |-> DoneFrame, nbytes |-> 0,
     last |-> NoCall, lastb |-> NoCall]


(***************************************************************************)
(* The signal lines in the two builds, LCD_GPIO_INVERTED 0 and 1, side by  *)
(* side: phys[b] are the levels driven in build b (-1: not driven yet),    *)
(* req[b] the newest LCD_HAL_DigitalWrite call made in build b.  The       *)
(* driver sources do not mention the flag (only lcd_hal.c:53 does), so     *)
(* both builds run the same Program.                                       *)
(***************************************************************************)
Builds == {0, 1}
GpioValues == {0, 1, 2, 255}

\* the writes of LCD_HAL_GPIO_Init asserting chip-select
GPIO_InitWrites_ChipSelectLow ==
    << DigitalWrite(LCD_CS_PIN, 0), DigitalWrite(LCD_DC_PIN, 0),
       DigitalWrite(LCD_RST_PIN, 1), DigitalWrite(LCD_BL_PIN, 1) >>

\* the writes of LCD_HAL_GPIO_Init
GPIO_InitWrites ==
    << DigitalWrite(LCD_CS_PIN, 1), DigitalWrite(LCD_DC_PIN, 0),
       DigitalWrite(LCD_RST_PIN, 1), DigitalWrite(LCD_BL_PIN, 1) >>

\* HAL call c made in every build
GpioExec(g, c) ==
    IF c.h = "DigitalWrite"
    THEN [g EXCEPT !.phys = [b \in Builds |-> [g.phys[b] EXCEPT ![c.pin] = DigitalWriteLevel(b, c.v)]],
                   !.req = [b \in Builds |-> c]]
    ELSE g

(***************************************************************************)
(* The machine.                                                            *)
(***************************************************************************)
\* the HAL calls driver function o makes for arguments a
Program(o, a) ==
    CASE o = "Init" -> GC9A01_Init
      [] o = "SetWindow" -> GC9A01_SetWindow(a[1], a[2], a[3], a[4])
      [] o = "FillRect" -> GC9A01_FillRect(a[1], a[2], a[3], a[4], a[5])
      [] OTHER -> <<>>

NoArgs == <<0, 0, 0, 0, 0>>

GpioOff == [pc |-> "off"]

\* no line is driven before LCD_HAL_GPIO_Init
GpioOn ==
    [pc |-> "init", k |-> 1, fn |-> "none", a |-> NoArgs,
     phys |-> [b \in Builds |-> [p \in Pins |-> 0 - 1]],
     req |-> [b \in Builds |-> NoCall]]

(***************************************************************************)
(* GC9A01_DrawStripes and the picture it leaves.  The controller memory is *)
(* the color written last to each pixel; lcd.mem holds it for the rows of  *)
(* one column, lcd.col, chosen at power-on (0 - 1: never written).  The    *)
(* controller takes every byte the driver writes.                          *)
(***************************************************************************)
LCD_COLOR_BLACK == 0
LCD_COLOR_WHITE == 65535
stripe_height == LCD_HEIGHT \div 8

\* GC9A01_DrawStripes with the colors the other way round
GC9A01_DrawStripes_OddWhite(i) ==
    LET y0 == (i * stripe_height) % U16
        y1 == ((i + 2) * stripe_height) % U16
        color == IF i % 2 = 0 THEN LCD_COLOR_BLACK ELSE LCD_COLOR_WHITE
    IN  <<0, y0, LCD_WIDTH, y1, color>>

\* the arguments of the GC9A01_FillRect call of iteration i
GC9A01_DrawStripes(i) ==
    LET y0 == (i * stripe_height) % U16
        y1 == ((i + 2) * stripe_height) % U16
        color == IF i % 2 = 0 THEN LCD_COLOR_WHITE ELSE LCD_COLOR_BLACK
    IN  <<0, y0, LCD_WIDTH, y1, color>>

\* the values of the bytes written by calls
ByteValues(calls) ==
    LET w == SelectSeq(calls, LAMBDA c : c.h = "WriteByte")
    IN  [n \in 1..Len(w) |-> w[n].v]

\* the window the controller holds after 0x2A, 0x2B and their parameters
Controller_Window(b) ==
    [sc |-> b[2] * 256 + b[3], ec |-> b[4] * 256 + b[5],
     sp |-> b[7] * 256 + b[8], ep |-> b[9] * 256 + b[10]]

\* memory of column col after npix pixels of value pixel written from the
\* window's first pixel on, the column address advancing first
Controller_Write(mem, col, win, npix, pixel) ==
    LET w == win.ec - win.sc + 1
    IN  [y \in 0..(LCD_HEIGHT - 1) |->
           IF /\ win.sc <= col /\ col <= win.ec
              /\ win.sp <= y /\ y <= win.ep
              /\ (y - win.sp) * w + (col - win.sc) < npix
           THEN pixel ELSE mem[y]]

\* memory of column col after GC9A01_FillRect(a)
Panel_FillRect(mem, col, a) ==
    LET r == ClampRect(a[1], a[2], a[3], a[4])
    IN  IF r = <<>> THEN mem
        ELSE Controller_Write(mem, col,
                              Controller_Window(ByteValues(GC9A01_SetWindow(r[1], r[2], r[3], r[4]))),
                              PixelCount(a[1], a[2], a[3], a[4]),
                              ColorMSB(a[5]) * 256 + ColorLSB(a[5]))

LcdRects == { <<0, 0, 240, 240>>, <<10, 100, 50, 140>>, <<200, 20, 300, 45>> }

LcdOff ==
    [pc |-> "off"]

\* the panel at power-on: nothing written yet
LcdOn(col) ==
    [pc |-> "on", i |-> 0, col |-> col, fills |-> 0,
     mem |-> [y \in 0..(LCD_HEIGHT - 1) |-> 0 - 1]]

(***************************************************************************)
(* LCD_HAL_SPI_CalcPrescaler, called by LCD_HAL_SPI_Init with the APB2     *)
(* clock and the requested SPI clock, both uint32_t.  BR = br divides the  *)
(* APB2 clock by 2^(br + 1).                                               *)
(***************************************************************************)
ApbClocks == {0, 1, 3, 255, 256, 8000000, 24000000, 48000000, 2147483647}
SpiSpeeds == {1, 2, 3, 100000, 187500, 1000000, 1500000, 3000000, 6000000,
              12000000, 24000000, 48000000}

LCD_HAL_SPI_CalcPrescaler(apb_clock, spi_speed) ==
    LET ratio == apb_clock \div spi_speed
    IN  IF ratio >= 256 THEN 7
        ELSE IF ratio >= 128 THEN 6
        ELSE IF ratio >= 64 THEN 5
        ELSE IF ratio >= 32 THEN 4
        ELSE IF ratio >= 16 THEN 3
        ELSE IF ratio >= 8 THEN 2
        ELSE IF ratio >= 4 THEN 1
        ELSE 0

PrescIdle == [pc |-> "idle"]

(***************************************************************************)
(* Callers of GC9A01_FillRect.  The driver takes no lock and masks no      *)
(* interrupt, so a call made from a second context (an interrupt handler)  *)
(* runs its HAL calls between those of the call it interrupted.  ctx.n is  *)
(* the number of contexts that call the driver, ctx.run[c].k the HAL call  *)
(* context c is at (0: not in a call), cutParams and cutBurst whether a    *)
(* byte of one call was written inside a command of the other, or between  *)
(* the other's memory-write command and its first pixel byte.              *)
(***************************************************************************)
Contexts == {1, 2}
CtxRects == { <<0, 0, 1, 1>>, <<239, 239, 300, 300>> }

CtxIdle == [n |-> 0]

\* n contexts, none in a call
CtxStarted(n) ==
    [n |-> n, run |-> [c \in Contexts |-> [k |-> 0, a |-> NoArgs]],
     cutParams |-> FALSE, cutBurst |-> FALSE]

Dev == [pins |-> pins, busy |-> busy, clock |-> clock, trace |-> trace]

\* LCD_HAL_GPIO_Init: the levels after LCD_HAL_Init
LCD_HAL_GPIO_Init ==
    [p \in Pins |->
        CASE p = LCD_CS_PIN -> LCD_HAL_DigitalWrite(1)
          [] p = LCD_DC_PIN -> LCD_HAL_DigitalWrite(0)
          [] p = LCD_RST_PIN -> LCD_HAL_DigitalWrite(1)
          [] p = LCD_BL_PIN -> LCD_HAL_DigitalWrite(1)]

Init ==
    /\ pins = LCD_HAL_GPIO_Init
    /\ busy = FALSE
    /\ clock = 0
    /\ trace = <<>>
    /\ ph = "idle"
    /\ op = "none"
    /\ args = NoArgs
    /\ prog = <<>>
    /\ pc = 1
    /\ entry = LCD_HAL_GPIO_Init
    /\ spi = "ok"
    /\ hal = HalIdle
    /\ scn = ScnIdle
    /\ gpio = GpioOff
    /\ ctx = CtxIdle
    /\ lcd = LcdOff
    /\ presc = PrescIdle

Call(o, a, m) ==
    /\ ph = "idle"
    /\ ph' = "run"
    /\ op' = o
    /\ args' = a
    /\ prog' = Program(o, a)
    /\ spi' = m
    /\ pc' = 1
    /\ clock' = 0
    /\ trace' = <<>>
    /\ busy' = FALSE
    /\ entry' = pins
    /\ UNCHANGED <<pins, hal, scn, gpio, ctx, lcd, presc>>

Call_Init ==
    /\ ph = "idle"
    /\ \E m \in SpiModes : Call("Init", NoArgs, m)

Call_SetWindow ==
    /\ ph = "idle"
    /\ \E r \in WinRects, m \in SpiModes :
          Call("SetWindow", <<r[1], r[2], r[3], r[4], 0>>, m)

\* GC9A01_FillRect returning at once while the lines are as LCD_HAL_GPIO_Init
\* left them, that is while GC9A01_Init has not run
Call_FillRect_RequiresInit ==
    /\ ph = "idle"
    /\ \E r \in FillRects, color \in Colors, m \in SpiModes :
          /\ PixelCount(r[1], r[2], r[3], r[4]) <= MaxPixels
          /\ ph' = "run"
          /\ op' = "FillRect"
          /\ args' = <<r[1], r[2], r[3], r[4], color>>
          /\ prog' = IF pins = LCD_HAL_GPIO_Init THEN <<>> ELSE Program("FillRect", args')
          /\ spi' = m
          /\ pc' = 1
          /\ clock' = 0
          /\ trace' = <<>>
          /\ busy' = FALSE
          /\ entry' = pins
          /\ UNCHANGED <<pins, hal, scn, gpio, ctx, lcd, presc>>

Call_FillRect ==
    /\ ph = "idle"
    /\ \E r \in FillRects, color \in Colors, m \in SpiModes :
          /\ PixelCount(r[1], r[2], r[3], r[4]) <= MaxPixels
          /\ Call("FillRect", <<r[1], r[2], r[3], r[4], color>>, m)

HalStep(h) ==
    /\ ph = "run"
    /\ pc <= Len(prog)
    /\ prog[pc].h = h
    /\ LET s == Exec(Dev, prog[pc], spi)
       IN  /\ pins' = s.pins
           /\ busy' = s.busy
           /\ clock' = s.clock
           /\ trace' = s.trace
    /\ pc' = pc + 1
    /\ UNCHANGED <<ph, op, args, prog, entry, spi, hal, scn, gpio, ctx, lcd, presc>>

HAL_DigitalWrite == HalStep("DigitalWrite")
HAL_Delay == HalStep("Delay")
HAL_SPI_WriteByte == HalStep("WriteByte")
HAL_WaitBSY == HalStep("WaitBSY")

\* the call is over: its trace is complete
Done == ph = "run" /\ pc > Len(prog)

Return ==
    /\ Done
    /\ ph' = "idle"
    /\ op' = "none"
    /\ args' = NoArgs
    /\ prog' = <<>>
    /\ pc' = 1
    /\ clock' = 0
    /\ trace' = <<>>
    /\ entry' = pins
    /\ spi' = "ok"
    /\ UNCHANGED <<pins, busy, hal, scn, gpio, ctx, lcd, presc>>

Next ==
    \/ Call_Init
    \/ Call_SetWindow
    \/ Call_FillRect
    \/ HAL_DigitalWrite
    \/ HAL_Delay
    \/ HAL_SPI_WriteByte
    \/ HAL_WaitBSY
    \/ Return

Spec == Init /\ [][Next]_vars

(***************************************************************************)
(* The poll-level machine: LCD_HAL_SPI_WriteByte, LCD_HAL_SPI_WriteBytes   *)
(* and the end of GC9A01_FillRect (the last pixel byte, the wait for BSY   *)
(* and the chip-select write), one statement or one poll per step.         *)
(***************************************************************************)
PollStep(h) ==
    /\ ph = "idle"
    /\ hal' = h
    /\ UNCHANGED <<pins, busy, clock, trace, ph, op, args, prog, pc, entry, spi, scn, gpio, ctx, lcd, presc>>

Poll_Call_WriteByte ==
    /\ hal.pc = "idle"
    /\ PollStep(WriteByte_Enter([hal EXCEPT !.fn = "WriteByte"]))

Poll_Call_WriteBytes ==
    /\ hal.pc = "idle"
    /\ \E Length \in Lengths :
          PollStep([hal EXCEPT !.fn = "WriteBytes", !.pc = "for", !.i = 0, !.len = Length])

\* GC9A01_FillRect at the last `LCD_HAL_SPI_WriteByte(color_lsb)`: chip-select
\* is low since the 0x2C command
Poll_Call_FillRect ==
    /\ hal.pc = "idle"
    /\ PollStep(WriteByte_Enter([hal EXCEPT !.fn = "FillRect", !.cs = LCD_HAL_DigitalWrite(0)]))

\* `for(uint32_t i = 0; i < Length; i++) LCD_HAL_SPI_WriteByte(pData[i]);`
WriteBytes_For ==
    /\ hal.pc = "for"
    /\ PollStep(IF hal.i < hal.len THEN WriteByte_Enter(hal) ELSE [hal EXCEPT !.pc = "done"])

\* `while(!(SPI1->STATR & (1 << 1)) && timeout--) {}`
WriteByte_PollTXE ==
    /\ hal.pc = "txe_wait"
    /\ hal.polls <= SPI_TIMEOUT + 1
    /\ \E TXE \in BOOLEAN :
          PollStep(BusyWaitPoll([hal EXCEPT !.txe = TXE], ~TXE, "txe_wait", "check"))

\* `if(timeout == 0) return;  SPI1->DATAR = Value;  timeout = 100000;`
WriteByte_WriteDATAR ==
    /\ hal.pc = "check"
    /\ PollStep(IF WriteByte_TimedOut(hal.timeout)
                THEN [hal EXCEPT !.txe = FALSE, !.pc = "ret"]
                ELSE [hal EXCEPT !.txe = FALSE, !.wrote = TRUE, !.timeout = SPI_TIMEOUT,
                                 !.polls = 0, !.pc = "bsy_wait"])

\* `while((SPI1->STATR & (1 << 7)) && timeout--) {}`
WriteByte_PollBSY ==
    /\ hal.pc = "bsy_wait"
    /\ hal.polls <= SPI_TIMEOUT + 1
    /\ \E BSY \in BOOLEAN :
          PollStep(BusyWaitPoll([hal EXCEPT !.bsy = BSY], WriteByte_Busy(BSY), "bsy_wait", "ret"))

\* LCD_HAL_SPI_WriteByte returns to its caller, which goes on: the test
\* harness is done, LCD_HAL_SPI_WriteBytes makes `i++`, GC9A01_FillRect makes
\* `uint32_t timeout = 100000;`
WriteByte_Return ==
    /\ hal.pc = "ret"
    /\ PollStep(CASE hal.fn = "WriteBytes" ->
                       [hal EXCEPT !.i = @ + 1, !.pc = "for", !.timeout = 0, !.polls = 0]
                  [] hal.fn = "FillRect" ->
                       [hal EXCEPT !.timeout = SPI_TIMEOUT, !.polls = 0, !.pc = "tail_wait"]
                  [] OTHER -> [hal EXCEPT !.pc = "done", !.timeout = 0, !.polls = 0])

\* `while((SPI1->STATR & (1 << 7)) && timeout--) {}` of GC9A01_FillRect
FillRect_PollBSY ==
    /\ hal.pc = "tail_wait"
    /\ hal.polls <= SPI_TIMEOUT + 1
    /\ \E BSY \in BOOLEAN :
          PollStep(BusyWaitPoll([hal EXCEPT !.bsy = BSY], FillRect_Busy(BSY), "tail_wait", "cs_high"))

\* `LCD_HAL_DigitalWrite(LCD_CS_PIN, 1);` of GC9A01_FillRect
FillRect_RaiseCS ==
    /\ hal.pc = "cs_high"
    /\ PollStep([hal EXCEPT !.cs = LCD_HAL_DigitalWrite(1), !.pc = "done"])

Poll_Return ==
    /\ hal.pc = "done"
    /\ PollStep(HalIdle)

\* the steps of a running function
PollRun ==
    \/ WriteBytes_For
    \/ WriteByte_PollTXE
    \/ WriteByte_WriteDATAR
    \/ WriteByte_PollBSY
    \/ WriteByte_Return
    \/ FillRect_PollBSY
    \/ FillRect_RaiseCS

PollNext ==
    \/ Poll_Call_WriteByte
    \/ Poll_Call_WriteBytes
    \/ Poll_Call_FillRect
    \/ PollRun
    \/ Poll_Return

SpecHal == Init /\ [][PollNext]_vars

\* A function that was called runs on: the CPU executes its next statement,
\* nothing preempts it for ever.
SpecHalFair == SpecHal /\ WF_vars(PollRun)

(***************************************************************************)
(* The long runs, one HAL call per step: the demonstration sequence, and   *)
(* GC9A01_FillScreen side by side with GC9A01_FillRect(0, 0, 240, 240).    *)
(* nbytes counts the bytes handed to the transport, last is the newest     *)
(* call (lastb that of the second runner).                                 *)
(***************************************************************************)
ScnStep(n) ==
    /\ ph = "idle"
    /\ hal.pc = "idle"
    /\ scn' = n
    /\ UNCHANGED <<pins, busy, clock, trace, ph, op, args, prog, pc, entry, spi, hal, gpio, ctx, lcd, presc>>

Bytes(c) == IF c.h = "WriteByte" THEN 1 ELSE 0

Scn_Start ==
    /\ scn.mode = "idle"
    /\ ScnStep([ScnIdle EXCEPT !.mode = "seq", !.stage = 1, !.a = Scenario(1)])

Scn_Call ==
    /\ scn.mode = "seq"
    /\ scn.a.pc # "done"
    /\ ScnStep([scn EXCEPT !.a = FrameStep(@), !.last = FrameCall(scn.a),
                           !.nbytes = @ + Bytes(FrameCall(scn.a))])

Scn_NextFunction ==
    /\ scn.mode = "seq"
    /\ scn.a.pc = "done"
    /\ scn.stage < ScenarioCalls
    /\ ScnStep([scn EXCEPT !.stage = @ + 1, !.a = Scenario(scn.stage + 1)])

Scn_End ==
    /\ scn.mode = "seq"
    /\ scn.a.pc = "done"
    /\ scn.stage = ScenarioCalls
    /\ ScnStep(ScnIdle)

Cmp_Start ==
    /\ scn.mode = "idle"
    /\ \E color \in Colors :
          ScnStep([ScnIdle EXCEPT !.mode = "cmp", !.a = GC9A01_FillScreen(color),
                                  !.b = FillRect_Frame(0, 0, 240, 240, color)])

Cmp_Call ==
    /\ scn.mode = "cmp"
    /\ scn.a.pc # "done" \/ scn.b.pc # "done"
    /\ ScnStep([scn EXCEPT !.a = FrameStep(@), !.last = FrameCall(scn.a),
                           !.b = FrameStep(@), !.lastb = FrameCall(scn.b),
                           !.nbytes = @ + Bytes(FrameCall(scn.a))])

Cmp_End ==
    /\ scn.mode = "cmp"
    /\ scn.a.pc = "done" /\ scn.b.pc = "done"
    /\ ScnStep(ScnIdle)

ScnNext ==
    \/ Scn_Start
    \/ Scn_Call
    \/ Scn_NextFunction
    \/ Scn_End
    \/ Cmp_Start
    \/ Cmp_Call
    \/ Cmp_End

SpecScenario == Init /\ [][ScnNext]_vars

(***************************************************************************)
(* The signal-line machine: power on, LCD_HAL_GPIO_Init write by write,    *)
(* then direct LCD_HAL_DigitalWrite calls and driver functions, one HAL    *)
(* call per step.                                                          *)
(***************************************************************************)
GpioCalls ==
    { <<"Init", NoArgs>>, <<"SetWindow", <<0, 0, 240, 240, 0>> >>,
      <<"FillRect", <<238, 237, 240, 240, \hF800>> >> }

GpioStep(g) ==
    /\ ph = "idle"
    /\ hal.pc = "idle"
    /\ scn.mode = "idle"
    /\ ctx.n = 0
    /\ gpio' = g
    /\ UNCHANGED <<pins, busy, clock, trace, ph, op, args, prog, pc, entry, spi, hal, scn, ctx, lcd, presc>>

Gpio_PowerOn ==
    /\ gpio.pc = "off"
    /\ GpioStep(GpioOn)

Gpio_InitWrite ==
    /\ gpio.pc = "init"
    /\ LET g == GpioExec(gpio, GPIO_InitWrites[gpio.k])
       IN  GpioStep(IF gpio.k < Len(GPIO_InitWrites)
                    THEN [g EXCEPT !.k = @ + 1]
                    ELSE [g EXCEPT !.k = 0, !.pc = "ready"])

Gpio_DigitalWrite ==
    /\ gpio.pc \in {"ready", "main"}
    /\ \E Pin \in Pins, Value \in GpioValues :
          GpioStep([GpioExec(gpio, DigitalWrite(Pin, Value)) EXCEPT !.pc = "main"])

Gpio_Call ==
    /\ gpio.pc \in {"ready", "main"}
    /\ \E c \in GpioCalls :
          GpioStep([gpio EXCEPT !.pc = "run", !.k = 1, !.fn = c[1], !.a = c[2]])

Gpio_HalCall ==
    /\ gpio.pc = "run"
    /\ LET calls == Program(gpio.fn, gpio.a)
           g == GpioExec(gpio, calls[gpio.k])
       IN  GpioStep(IF gpio.k < Len(calls)
                    THEN [g EXCEPT !.k = @ + 1]
                    ELSE [g EXCEPT !.k = 0, !.pc = "main", !.fn = "none", !.a = NoArgs])

Gpio_PowerOff ==
    /\ gpio.pc = "main"
    /\ GpioStep(GpioOff)

GpioNext ==
    \/ Gpio_PowerOn
    \/ Gpio_InitWrite
    \/ Gpio_DigitalWrite
    \/ Gpio_Call
    \/ Gpio_HalCall
    \/ Gpio_PowerOff

SpecGpio == Init /\ [][GpioNext]_vars

(***************************************************************************)
(* The callers' machine: one HAL call of one context per step.             *)
(***************************************************************************)
CtxProgram(c) ==
    LET a == ctx.run[c].a IN GC9A01_FillRect(a[1], a[2], a[3], a[4], a[5])

\* the next byte context c writes (0: none), and the byte it wrote last
CtxNextByte(c) ==
    LET calls == CtxProgram(c)
        S == {i \in ctx.run[c].k..Len(calls) : calls[i].h = "WriteByte"}
    IN  IF ctx.run[c].k = 0 \/ S = {} THEN 0 ELSE CHOOSE i \in S : \A j \in S : i <= j

CtxLastByte(c) ==
    LET calls == CtxProgram(c)
        S == {i \in 1..(ctx.run[c].k - 1) : calls[i].h = "WriteByte"}
    IN  IF ctx.run[c].k = 0 \/ S = {} THEN 0 ELSE CHOOSE i \in S : \A j \in S : i >= j

\* context c has sent a command byte and not yet the last of its parameters
InParams(c) ==
    /\ CtxLastByte(c) # 0
    /\ CtxNextByte(c) # 0
    /\ CtxProgram(c)[CtxNextByte(c)].src = "data"

\* context c has sent the memory-write command and not yet a pixel byte
BeforeBurst(c) ==
    /\ CtxLastByte(c) # 0
    /\ CtxNextByte(c) # 0
    /\ CtxProgram(c)[CtxLastByte(c)].src = "cmd"
    /\ CtxProgram(c)[CtxNextByte(c)].src = "pix"

CtxStep(x) ==
    /\ ph = "idle"
    /\ hal.pc = "idle"
    /\ scn.mode = "idle"
    /\ gpio.pc = "off"
    /\ ctx' = x
    /\ UNCHANGED <<pins, busy, clock, trace, ph, op, args, prog, pc, entry, spi, hal, scn, gpio, lcd, presc>>

Ctx_Start ==
    /\ ctx.n = 0
    /\ \E n \in Contexts : CtxStep(CtxStarted(n))

\* a context that calls nothing while it is in a call calls GC9A01_FillRect;
\* a lone caller is context 1
Ctx_Call_AnyContext ==
    \E c \in Contexts, r \in CtxRects :
       /\ ctx.n > 0
       /\ ctx.run[c].k = 0
       /\ CtxStep([ctx EXCEPT !.run[c] = [k |-> 1, a |-> <<r[1], r[2], r[3], r[4], \hF800>>]])

Ctx_Call ==
    \E c \in Contexts, r \in CtxRects :
       /\ c <= ctx.n
       /\ ctx.run[c].k = 0
       /\ CtxStep([ctx EXCEPT !.run[c] = [k |-> 1, a |-> <<r[1], r[2], r[3], r[4], \hF800>>]])

Ctx_HalCall ==
    \E c \in Contexts :
       /\ ctx.n > 0
       /\ ctx.run[c].k \in 1..Len(CtxProgram(c))
       /\ LET byte == CtxProgram(c)[ctx.run[c].k].h = "WriteByte"
              o == 3 - c
          IN  CtxStep([ctx EXCEPT !.run[c].k = @ + 1,
                                  !.cutParams = @ \/ (byte /\ InParams(o)),
                                  !.cutBurst = @ \/ (byte /\ BeforeBurst(o))])

Ctx_Return ==
    \E c \in Contexts :
       /\ ctx.n > 0
       /\ ctx.run[c].k > Len(CtxProgram(c))
       /\ CtxStep([ctx EXCEPT !.run[c] = [k |-> 0, a |-> NoArgs]])

Ctx_Stop ==
    /\ ctx.n > 0
    /\ \A c \in Contexts : ctx.run[c].k = 0
    /\ CtxStep(CtxIdle)

CtxNext ==
    \/ Ctx_Start
    \/ Ctx_Call
    \/ Ctx_HalCall
    \/ Ctx_Return
    \/ Ctx_Stop

SpecCallers == Init /\ [][CtxNext]_vars

(***************************************************************************)
(* The panel machine: power-on, GC9A01_Init, fills, GC9A01_DrawStripes     *)
(* one iteration per step.                                                 *)
(***************************************************************************)
LcdStep(l) ==
    /\ ph = "idle"
    /\ hal.pc = "idle"
    /\ scn.mode = "idle"
    /\ gpio.pc = "off"
    /\ ctx.n = 0
    /\ lcd' = l
    /\ UNCHANGED <<pins, busy, clock, trace, ph, op, args, prog, pc, entry, spi, hal, scn, gpio, ctx, presc>>

Lcd_PowerOn ==
    /\ lcd.pc = "off"
    /\ \E col \in 0..(LCD_WIDTH - 1) : LcdStep(LcdOn(col))

\* GC9A01_Init: the script holds no memory write
Lcd_Init ==
    /\ lcd.pc = "on"
    /\ SelectSeq(GC9A01_Init, LAMBDA c : c.src = "pix") = <<>>
    /\ LcdStep([lcd EXCEPT !.pc = "ready"])

Lcd_FillRect ==
    /\ lcd.pc \in {"ready", "shown"}
    /\ lcd.fills < MaxFills
    /\ \E r \in LcdRects, color \in Colors :
          LcdStep([lcd EXCEPT !.pc = "ready", !.fills = @ + 1,
                              !.mem = Panel_FillRect(lcd.mem, lcd.col, <<r[1], r[2], r[3], r[4], color>>)])

Lcd_DrawStripes ==
    /\ lcd.pc \in {"ready", "shown"}
    /\ LcdStep([lcd EXCEPT !.pc = "stripes", !.i = 0])

Lcd_Stripe ==
    /\ lcd.pc = "stripes"
    /\ lcd.i < 8
    /\ LcdStep([lcd EXCEPT !.i = (@ + 1) % 256,
                           !.mem = Panel_FillRect(lcd.mem, lcd.col, GC9A01_DrawStripes(lcd.i))])

Lcd_Return ==
    /\ lcd.pc = "stripes"
    /\ ~(lcd.i < 8)
    /\ LcdStep([lcd EXCEPT !.pc = "shown", !.i = 0])

Lcd_PowerOff ==
    /\ lcd.pc \in {"ready", "shown"}
    /\ LcdStep(LcdOff)

LcdNext ==
    \/ Lcd_PowerOn
    \/ Lcd_Init
    \/ Lcd_FillRect
    \/ Lcd_DrawStripes
    \/ Lcd_Stripe
    \/ Lcd_Return
    \/ Lcd_PowerOff

SpecPanel == Init /\ [][LcdNext]_vars

(***************************************************************************)
(* The prescaler machine: LCD_HAL_SPI_Init calls                           *)
(* LCD_HAL_SPI_CalcPrescaler and programs the BR bits with the result.     *)
(***************************************************************************)
PrescStep(x) ==
    /\ ph = "idle"
    /\ hal.pc = "idle"
    /\ scn.mode = "idle"
    /\ gpio.pc = "off"
    /\ ctx.n = 0
    /\ lcd.pc = "off"
    /\ presc' = x
    /\ UNCHANGED <<pins, busy, clock, trace, ph, op, args, prog, pc, entry, spi, hal, scn, gpio, ctx, lcd>>

Presc_Call ==
    /\ presc.pc = "idle"
    /\ \E apb_clock \in ApbClocks, spi_speed \in SpiSpeeds :
          PrescStep([pc |-> "call", apb_clock |-> apb_clock, spi_speed |-> spi_speed])

Presc_Return ==
    /\ presc.pc = "call"
    /\ PrescStep([pc |-> "ret", apb_clock |-> presc.apb_clock, spi_speed |-> presc.spi_speed,
                  br |-> LCD_HAL_SPI_CalcPrescaler(presc.apb_clock, presc.spi_speed)])

Presc_SetBR ==
    /\ presc.pc = "ret"
    /\ PrescStep(PrescIdle)

PrescNext ==
    \/ Presc_Call
    \/ Presc_Return
    \/ Presc_SetBR

SpecPrescaler == Init /\ [][PrescNext]_vars

(***************************************************************************)
(* Reading the trace.                                                      *)
(***************************************************************************)
IsByte(e) == e.k = "byte"
IsCmd(e) == e.k = "byte" /\ e.src = "cmd"
IsPin(e, p) == e.k = "pin" /\ e.pin = p
ByteIdx == {i \in 1..Len(trace) : IsByte(trace[i])}
CmdIdx == {i \in 1..Len(trace) : IsCmd(trace[i])}
PinIdx(p) == {i \in 1..Len(trace) : IsPin(trace[i], p)}
\* the bytes handed to the transport, in order, as <<value, writer>>
ByteSeq == LET b == SelectSeq(trace, IsByte) IN [i \in 1..Len(b) |-> <<b[i].v, b[i].src>>]
AllSent == \A i \in ByteIdx : trace[i].sent
RECURSIVE PrevWrite(_, _)
\* index of the last write to line p among events 1..i, 0 when there is none
PrevWrite(p, i) ==
    IF i = 0 THEN 0 ELSE IF IsPin(trace[i], p) THEN i ELSE PrevWrite(p, i - 1)
\* the last write to line p before event i is a write of level v
LastWriteIs(p, v, i) ==
    LET j == PrevWrite(p, i - 1) IN j > 0 /\ trace[j].v = v
\* the newest event of the trace is event n: every event is the newest one
\* in the state that follows its step
Newest(n) == n = Len(trace) /\ n > 0
InCall(o) == ph = "run" /\ op = o

(***************************************************************************)
(* C1: for every rectangle with 0 <= x0 < x1 <= 240 and 0 <= y0 < y1 <=    *)
(* 240 and every color, when the transport never times out, a finished     *)
(* GC9A01_FillRect has written exactly 2*(x1-x0)*(y1-y0) bytes after the   *)
(* memory-write command 0x2C, and they are the pair (color>>8, color&0xFF) *)
(* repeated, high byte first.                                              *)
(***************************************************************************)
C1_PixelBytes ==
    (Done /\ op = "FillRect" /\ spi = "ok"
       /\ 0 <= args[1] /\ args[1] < args[3] /\ args[3] <= 240
       /\ 0 <= args[2] /\ args[2] < args[4] /\ args[4] <= 240)
    => \E c \in CmdIdx :
          /\ trace[c].v = 44
          /\ \A n \in CmdIdx : n <= c
          /\ LET after == SelectSeq(SubSeq(trace, c + 1, Len(trace)), IsByte)
             IN  /\ Len(after) = 2 * (args[3] - args[1]) * (args[4] - args[2])
                 /\ \A i \in 1..Len(after) :
                       /\ after[i].sent
                       /\ after[i].v = IF i % 2 = 1 THEN args[5] \div 256 ELSE args[5] % 256

C1_Witness ==
    /\ Done /\ op = "FillRect" /\ spi = "ok"
    /\ args = <<238, 237, 240, 240, 63488>>
    /\ Cardinality(ByteIdx) = 11 + 12

(***************************************************************************)
(* C2 (as claimed): every byte the driver writes during GC9A01_Init,       *)
(* GC9A01_SetWindow and GC9A01_FillRect is written while chip-select is    *)
(* low.                                                                    *)
(***************************************************************************)
C2_BytesUnderChipSelect ==
    \A i \in {Len(trace)} : (i > 0 /\ IsByte(trace[i])) => trace[i].cs = 0

(***************************************************************************)
(* C3 (as claimed): for each command followed by parameter bytes,          *)
(* chip-select is never driven high between the command byte and the last  *)
(* of its parameter bytes, and it is driven high exactly once before the   *)
(* next command.                                                           *)
(***************************************************************************)
RECURSIVE RaisesSinceCommand(_)
\* number of writes of high to chip-select among events 1..i that follow
\* the last command byte
RaisesSinceCommand(i) ==
    IF i = 0 \/ IsCmd(trace[i]) THEN 0
    ELSE (IF IsPin(trace[i], LCD_CS_PIN) /\ trace[i].v = 1 THEN 1 ELSE 0)
            + RaisesSinceCommand(i - 1)

C3_ChipSelectRaisedOncePerTransaction ==
    (ph = "run" /\ op \in {"Init", "SetWindow"}) =>
       \A n \in {Len(trace)} : n > 0 =>
          /\ (IsByte(trace[n]) /\ trace[n].src = "data") => RaisesSinceCommand(n) = 0
          /\ RaisesSinceCommand(n) <= 1

(***************************************************************************)
(* C4: whenever a command byte is written, the last write to chip-select   *)
(* and the last write to data/command in this operation drove them low,    *)
(* and both lines are low, whatever their levels were on entry.            *)
(***************************************************************************)
C4_CommandFraming ==
    \A i \in {Len(trace)} : (i > 0 /\ IsCmd(trace[i])) =>
       /\ LastWriteIs(LCD_CS_PIN, 0, i)
       /\ LastWriteIs(LCD_DC_PIN, 0, i)
       /\ trace[i].cs = 0
       /\ trace[i].dc = 0

C4_Witness ==
    /\ entry[LCD_CS_PIN] = 1 /\ entry[LCD_DC_PIN] = 1
    /\ ph = "run" /\ op \in {"Init", "SetWindow"}
    /\ Cardinality(CmdIdx) >= 2

(***************************************************************************)
(* C5: for all 0 <= x0 < x1 <= 240 and 0 <= y0 < y1 <= 240, a finished     *)
(* GC9A01_SetWindow has handed to the transport, in this order, command    *)
(* 0x2A with data [0, x0, 0, x1-1], command 0x2B with data [0, y0, 0,      *)
(* y1-1], then command 0x2C and nothing else (all of them written when the *)
(* transport does not time out); for (0,0,240,240) both runs are           *)
(* [0, 0, 0, 0xEF].                                                        *)
(***************************************************************************)
WindowBytes(x0, y0, x1, y1) ==
    << <<42, "cmd">>, <<0, "data">>, <<x0, "data">>, <<0, "data">>, <<x1 - 1, "data">>,
       <<43, "cmd">>, <<0, "data">>, <<y0, "data">>, <<0, "data">>, <<y1 - 1, "data">>,
       <<44, "cmd">> >>

C5_WindowEncoding ==
    (Done /\ op = "SetWindow"
       /\ 0 <= args[1] /\ args[1] < args[3] /\ args[3] <= 240
       /\ 0 <= args[2] /\ args[2] < args[4] /\ args[4] <= 240)
    => /\ ByteSeq = WindowBytes(args[1], args[2], args[3], args[4])
       /\ spi = "ok" => AllSent
       /\ (args = <<0, 0, 240, 240, 0>>) =>
             /\ SubSeq(ByteSeq, 2, 5) = << <<0, "data">>, <<0, "data">>, <<0, "data">>, <<239, "data">> >>
             /\ SubSeq(ByteSeq, 7, 10) = << <<0, "data">>, <<0, "data">>, <<0, "data">>, <<239, "data">> >>

C5_Witness ==
    Done /\ op = "SetWindow" /\ args = <<0, 0, 240, 240, 0>> /\ spi = "ok" /\ Len(ByteSeq) = 11

(***************************************************************************)
(* C6: GC9A01_FillRect with x0 >= 240, or y0 >= 240, or, after x1 and y1   *)
(* are clamped to 240, x0 >= x1 or y0 >= y1, writes no byte, writes no     *)
(* signal line and requests no delay.                                      *)
(***************************************************************************)
Min(a, b) == IF a < b THEN a ELSE b

C6_EmptyFillIsNoOp ==
    (InCall("FillRect")
       /\ (\/ args[1] >= 240 \/ args[2] >= 240
           \/ args[1] >= Min(args[3], 240) \/ args[2] >= Min(args[4], 240)))
    => trace = <<>> /\ pins = entry /\ clock = 0 /\ Done

C6_Witness ==
    Done /\ op = "FillRect" /\ SubSeq(args, 1, 4) \in {<<50, 50, 50, 80>>, <<10, 300, 20, 310>>}
       /\ trace = <<>>

(***************************************************************************)
(* C7: for every x0, y0 and color, GC9A01_FillRect with x1 > 240 leaves    *)
(* the trace of GC9A01_FillRect with x1 = 240 started from the same state, *)
(* and likewise for y1 > 240 and for both.                                 *)
(***************************************************************************)
\* the trace of the whole call GC9A01_FillRect(x0, y0, x1, y1, color) from the entry state
FillRectTrace(x0, y0, x1, y1, color) ==
    Run(GC9A01_FillRect(x0, y0, x1, y1, color),
        [pins |-> entry, busy |-> FALSE, clock |-> 0, trace |-> <<>>], spi).trace

\* the finished call left the trace of GC9A01_FillRect(x0, y0, x1, y1, color),
\* a call the model executes (at most MaxPixels pixels)
SameTraceAs(x0, y0, x1, y1, color) ==
    PixelCount(x0, y0, x1, y1) <= MaxPixels => trace = FillRectTrace(x0, y0, x1, y1, color)

C7_ClampIdempotence ==
    (Done /\ op = "FillRect") =>
       /\ args[3] > 240 => SameTraceAs(args[1], args[2], 240, args[4], args[5])
       /\ args[4] > 240 => SameTraceAs(args[1], args[2], args[3], 240, args[5])
       /\ (args[3] > 240 /\ args[4] > 240) =>
             SameTraceAs(args[1], args[2], 240, 240, args[5])

C7_Witness ==
    /\ Done /\ op = "FillRect" /\ args[3] = 300 /\ args[4] = 310
    /\ args[1] = 238 /\ args[2] = 237
    /\ Cardinality(ByteIdx) = 11 + 12

(***************************************************************************)
(* C8 (as claimed): after the reset line is driven high, at least 120 ms   *)
(* of delay elapse before GC9A01_Init writes the next command byte.        *)
(***************************************************************************)
C8_ResetReleaseHold ==
    InCall("Init") =>
       \A c \in {Len(trace)} : (c > 0 /\ IsCmd(trace[c])) =>
          \A r \in PinIdx(LCD_RST_PIN) :
             trace[r].v = 1 => trace[c].t - trace[r].t >= 120000

(***************************************************************************)
(* C9: GC9A01_Reset drives the reset line low, then, at least 10 ms of     *)
(* requested delay later and with no other write to the reset line in      *)
(* between, high; a write of high is always preceded by the write of low.  *)
(***************************************************************************)
ResetWrites == LET w == SelectSeq(trace, LAMBDA e : IsPin(e, LCD_RST_PIN))
               IN  [i \in 1..Len(w) |-> w[i].v]

C9_ResetPulse ==
    InCall("Init") =>
       /\ \A h \in {Len(trace)} : (h > 0 /\ IsPin(trace[h], LCD_RST_PIN)) =>
             LET l == PrevWrite(LCD_RST_PIN, h - 1)
             IN  IF trace[h].v = 1
                 THEN /\ l > 0 /\ trace[l].v = 0
                      /\ trace[h].t - trace[l].t >= 10000
                      /\ \A n \in (l + 1)..(h - 1) : trace[n].rst = 0
                 ELSE l = 0
       /\ ResetWrites \in {<<>>, <<0>>, <<0, 1>>}
       /\ Done => ResetWrites = <<0, 1>>

C9_Witness ==
    /\ InCall("Init")
    /\ Newest(3) /\ IsPin(trace[3], LCD_RST_PIN) /\ trace[3].v = 1 /\ trace[3].t = 200000
    /\ pins[LCD_RST_PIN] = 1

(***************************************************************************)
(* C10: GC9A01_Init completes the reset sequence (the reset line released  *)
(* and the 100 ms wait of GC9A01_Reset over) before it writes any byte,    *)
(* replays the script, and ends with command 0x11, a delay of at least     *)
(* 120 ms, command 0x29 and a delay of at least 20 ms, no byte being       *)
(* written after 0x29.                                                     *)
(***************************************************************************)
RECURSIVE FlatScript(_)
\* the script as <<value, writer>> pairs
FlatScript(script) ==
    IF script = <<>> THEN <<>>
    ELSE LET e == Head(script)
         IN  [i \in 1..Len(e) |-> <<e[i], IF i = 1 THEN "cmd" ELSE "data">>]
                \o FlatScript(Tail(script))

C10_InitSequence ==
    InCall("Init") =>
       /\ \A i \in {Len(trace)} : (i > 0 /\ IsByte(trace[i])) =>
             LET R == PinIdx(LCD_RST_PIN)
             IN  \E h \in R :
                    /\ trace[h].v = 1 /\ \A n \in R : n <= h
                    /\ trace[i].rst = 1
                    /\ trace[i].t - trace[h].t >= 100000
       /\ Done =>
             /\ ByteSeq = FlatScript(InitScript) \o << <<17, "cmd">>, <<41, "cmd">> >>
             /\ \E a, b \in CmdIdx :
                   /\ a < b /\ trace[a].v = 17 /\ trace[b].v = 41
                   /\ \A n \in ByteIdx : n <= b /\ ~(a < n /\ n < b)
                   /\ trace[b].t - trace[a].t >= 120000
                   /\ clock - trace[b].t >= 20000

C10_Witness ==
    Done /\ op = "Init" /\ spi = "ok" /\ Len(ByteSeq) = 184 /\ AllSent

(***************************************************************************)
(* The two models of GC9A01_FillRect agree: the calls made statement by    *)
(* statement are the calls of the program.                                 *)
(***************************************************************************)
FrameModelAgrees ==
    (InCall("FillRect") /\ pc = 1) =>
       Unroll(FillRect_Frame(args[1], args[2], args[3], args[4], args[5])) = prog

(***************************************************************************)
(* C11: GC9A01_Init(), GC9A01_FillScreen(0xF800), GC9A01_FillRect(10, 10,  *)
(* 20, 20, 0x07E0) hand to the transport exactly: the bytes of the         *)
(* initialisation script (with 0x11 and 0x29), the window sequence of      *)
(* (0,0,240,240), 240*240 pairs (0xF8, 0x00), the window sequence of       *)
(* (10,10,20,20), 10*10 pairs (0x07, 0xE0), and no other byte.             *)
(***************************************************************************)
ScriptBytes == FlatScript(InitScript) \o << <<17, "cmd">>, <<41, "cmd">> >>

ExpectedByte(n) ==
    LET s == Len(ScriptBytes)
        w == Len(WindowBytes(0, 0, 1, 1))
        screen == 2 * 240 * 240
        square == 2 * 10 * 10
    IN  IF n <= s THEN ScriptBytes[n][1]
        ELSE IF n <= s + w THEN WindowBytes(0, 0, 240, 240)[n - s][1]
        ELSE IF n <= s + w + screen
             THEN (IF (n - s - w) % 2 = 1 THEN \hF8 ELSE \h00)
        ELSE IF n <= s + w + screen + w
             THEN WindowBytes(10, 10, 20, 20)[n - s - w - screen][1]
        ELSE IF n <= s + w + screen + w + square
             THEN (IF (n - s - w - screen - w) % 2 = 1 THEN \h07 ELSE \hE0)
        ELSE 0 - 1

ExpectedLength == Len(ScriptBytes) + 11 + 2 * 240 * 240 + 11 + 2 * 10 * 10

C11_DemonstrationBytes ==
    scn.mode = "seq" =>
       /\ scn.last.h = "WriteByte" => scn.last.v = ExpectedByte(scn.nbytes)
       /\ (scn.stage = ScenarioCalls /\ scn.a.pc = "done") => scn.nbytes = ExpectedLength

C11_Witness ==
    /\ scn.mode = "seq" /\ scn.stage = 3 /\ scn.a.pc = "done"
    /\ scn.nbytes = 184 + 11 + 115200 + 11 + 200
    /\ scn.last = DigitalWrite(LCD_CS_PIN, 1)

(***************************************************************************)
(* C12: for every color, GC9A01_FillScreen(color) and GC9A01_FillRect(0,   *)
(* 0, 240, 240, color) make the same HAL calls (signal writes, delays and  *)
(* bytes) in the same order, and end together.                             *)
(***************************************************************************)
C12_FillScreenIsFullFillRect ==
    scn.mode = "cmp" =>
       /\ scn.last = scn.lastb
       /\ (scn.a.pc = "done") <=> (scn.b.pc = "done")

C12_Witness ==
    /\ scn.mode = "cmp" /\ scn.a.pc = "done" /\ scn.b.pc = "done"
    /\ scn.nbytes = 11 + 2 * 240 * 240
    /\ scn.lastb = DigitalWrite(LCD_CS_PIN, 1)

(***************************************************************************)
(* C13: in every non-empty GC9A01_FillRect, data mode is selected exactly  *)
(* once after the command 0x2C, and chip-select is not written between the *)
(* 0x2C command byte and the last pixel byte: it stays low for the whole   *)
(* burst and is written once, high, after it.                              *)
(***************************************************************************)
RECURSIVE PrevCmd(_)
\* index of the last command byte among events 1..i, 0 when there is none
PrevCmd(i) == IF i = 0 THEN 0 ELSE IF IsCmd(trace[i]) THEN i ELSE PrevCmd(i - 1)

RECURSIVE WritesSinceCommand(_, _)
\* number of writes to line p among events 1..i that follow the last command byte
WritesSinceCommand(p, i) ==
    IF i = 0 \/ IsCmd(trace[i]) THEN 0
    ELSE (IF IsPin(trace[i], p) THEN 1 ELSE 0) + WritesSinceCommand(p, i - 1)

IsPixel(e) == e.k = "byte" /\ e.src = "pix"

C13_OneBurstUnderChipSelect ==
    InCall("FillRect") =>
       \A n \in {Len(trace)} :
          /\ (n > 0 /\ IsPixel(trace[n])) =>
                /\ PrevCmd(n) > 0 /\ trace[PrevCmd(n)].v = 44
                /\ WritesSinceCommand(LCD_CS_PIN, n) = 0
                /\ WritesSinceCommand(LCD_DC_PIN, n) = 1
                /\ trace[n].cs = 0 /\ trace[n].dc = 1
          /\ (Done /\ n > 0) =>
                /\ WritesSinceCommand(LCD_DC_PIN, n) = 1
                /\ WritesSinceCommand(LCD_CS_PIN, n) = 1
                /\ IsPin(trace[n], LCD_CS_PIN) /\ trace[n].v = 1
                /\ \E i \in PrevCmd(n)..n : IsPixel(trace[i])

C13_Witness ==
    /\ Done /\ op = "FillRect"
    /\ Cardinality({i \in 1..Len(trace) : IsPixel(trace[i])}) = 12

(***************************************************************************)
(* C18 (as claimed): every command byte that is not followed by parameter  *)
(* bytes has chip-select driven high after it and before the next command  *)
(* byte is written.                                                        *)
(***************************************************************************)
RECURSIVE DataSinceCommand(_)
\* number of parameter bytes among events 1..i that follow the last command byte
DataSinceCommand(i) ==
    IF i = 0 \/ IsCmd(trace[i]) THEN 0
    ELSE (IF IsByte(trace[i]) THEN 1 ELSE 0) + DataSinceCommand(i - 1)

C18_BareCommandClosed ==
    \A n \in {Len(trace)} :
       (n > 1 /\ IsCmd(trace[n]) /\ PrevCmd(n - 1) > 0 /\ DataSinceCommand(n - 1) = 0)
       => RaisesSinceCommand(n - 1) >= 1

(***************************************************************************)
(* C19 (as claimed): a nonzero delay separates every write to chip-select  *)
(* or data/command from the next byte written, and every byte written from *)
(* the next write to a signal line.                                        *)
(***************************************************************************)
RECURSIVE SettledBefore(_, _)
\* every write to chip-select or data/command among events 1..i that
\* follows the last byte was made before time t
SettledBefore(i, t) ==
    IF i = 0 \/ IsByte(trace[i]) THEN TRUE
    ELSE /\ (IsPin(trace[i], LCD_CS_PIN) \/ IsPin(trace[i], LCD_DC_PIN)) => trace[i].t < t
         /\ SettledBefore(i - 1, t)

RECURSIVE PrevByte(_)
\* index of the last byte among events 1..i, 0 when there is none
PrevByte(i) == IF i = 0 THEN 0 ELSE IF IsByte(trace[i]) THEN i ELSE PrevByte(i - 1)

C19_SettleDelays ==
    \A n \in {Len(trace)} :
       /\ (n > 0 /\ IsByte(trace[n])) => SettledBefore(n - 1, trace[n].t)
       /\ (n > 0 /\ trace[n].k = "pin" /\ PrevByte(n - 1) > 0)
             => trace[PrevByte(n - 1)].t < trace[n].t

(***************************************************************************)
(* C20: when GC9A01_SetWindow returns, chip-select is low and the          *)
(* data/command line is low; the command 0x2C is the last byte and the     *)
(* last event of the call, so data mode has not been selected after it.    *)
(***************************************************************************)
C20_WindowLeavesCommandOpen ==
    (Done /\ op = "SetWindow") =>
       /\ pins[LCD_CS_PIN] = 0
       /\ pins[LCD_DC_PIN] = 0
       /\ \A n \in {Len(trace)} : n > 0 /\ IsCmd(trace[n]) /\ trace[n].v = 44

C20_Witness ==
    /\ Done /\ op = "SetWindow"
    /\ entry[LCD_CS_PIN] = 1 /\ entry[LCD_DC_PIN] = 1
    /\ pins[LCD_CS_PIN] = 0 /\ pins[LCD_DC_PIN] = 0

(***************************************************************************)
(* The two models of the transmit-ready wait agree: when the loop is left  *)
(* after d polls that read TXE clear, timeout is TimeoutAfterTxeWait(d).   *)
(***************************************************************************)
PollModelAgrees ==
    hal.pc = "check" =>
       hal.timeout = TimeoutAfterTxeWait(IF hal.txe THEN hal.polls - 1 ELSE hal.polls)

(***************************************************************************)
(* C14 (as claimed): in GC9A01_FillRect chip-select is driven high after   *)
(* the last pixel byte only when the last reading of BSY was clear,        *)
(* whatever the BSY flag does.                                             *)
(***************************************************************************)
C14_DeassertOnlyWhenIdle ==
    (hal.fn = "FillRect" /\ hal.cs = 1) => ~hal.bsy

(***************************************************************************)
(* C14 (amended): in GC9A01_FillRect chip-select is driven high after the  *)
(* last pixel byte only when the last reading of BSY was clear, or when    *)
(* the wait for BSY has used up its budget of 100001 polls.                *)
(***************************************************************************)
C14_DeassertWhenIdleOrTimedOut ==
    (hal.fn = "FillRect" /\ hal.cs = 1 /\ hal.bsy) => hal.polls = SPI_TIMEOUT + 1

\* BSY read set twice after the last byte was written, then clear, then
\* chip-select was raised
C14_Witness ==
    hal.fn = "FillRect" /\ hal.pc = "done" /\ hal.cs = 1 /\ hal.wrote /\ ~hal.bsy /\ hal.polls = 3

(***************************************************************************)
(* C15 (as claimed): whenever LCD_HAL_SPI_WriteByte returns after having   *)
(* written the data register, the last reading of BSY was clear.           *)
(***************************************************************************)
C15_ReturnsWhenShifted ==
    (hal.pc = "ret" /\ hal.wrote) => ~hal.bsy

(***************************************************************************)
(* C15 (amended): whenever LCD_HAL_SPI_WriteByte returns after having      *)
(* written the data register, the last reading of BSY was clear, or the    *)
(* wait for BSY has used up its budget of 100001 polls.                    *)
(***************************************************************************)
C15_ReturnsWhenShiftedOrTimedOut ==
    (hal.pc = "ret" /\ hal.wrote /\ hal.bsy) => hal.polls = SPI_TIMEOUT + 1

\* the byte was written, BSY read set once and then clear
C15_Witness ==
    hal.fn = "WriteByte" /\ hal.pc = "ret" /\ hal.wrote /\ ~hal.bsy /\ hal.polls = 2

(***************************************************************************)
(* C16 (as claimed): when the wait for TXE of LCD_HAL_SPI_WriteByte is     *)
(* over with TXE clear on every poll (the budget is used up), the step     *)
(* that follows does not write the data register.                          *)
(***************************************************************************)
C16_TimeoutAbandons ==
    [][(hal.pc = "check" /\ ~hal.txe) => ~hal'.wrote]_vars

(***************************************************************************)
(* C17: no busy-wait loop reads the status register more than 100001       *)
(* times; every call of LCD_HAL_SPI_WriteByte, LCD_HAL_SPI_WriteBytes and  *)
(* of the end of GC9A01_FillRect comes to its end, whatever the TXE and    *)
(* BSY flags read at each poll.  (The driver functions are finite          *)
(* sequences of HAL calls, see Program: they end when each call does.)     *)
(***************************************************************************)
C17_BoundedWaits ==
    /\ [](hal.polls <= SPI_TIMEOUT + 1)
    /\ (hal.pc # "idle") ~> (hal.pc = "done")

\* BSY never read clear, and GC9A01_FillRect is over
C17_Witness ==
    /\ hal.fn = "FillRect" /\ hal.pc = "done"
    /\ hal.wrote /\ hal.bsy /\ hal.polls = SPI_TIMEOUT + 1

(***************************************************************************)
(* C21: whenever GC9A01_FillRect writes a pixel byte, the bytes written    *)
(* before it in the same call are the complete window sequence of the      *)
(* clamped rectangle (0x2A and 4 data bytes, 0x2B and 4 data bytes, 0x2C)   *)
(* followed by pixel bytes only: no other byte lies between 0x2C and the    *)
(* first pixel byte.                                                        *)
(***************************************************************************)
C21_WindowBeforeBurst ==
    InCall("FillRect") =>
       \A n \in {Len(trace)} : (n > 0 /\ IsPixel(trace[n])) =>
          LET b == ByteSeq
              r == ClampRect(args[1], args[2], args[3], args[4])
          IN  /\ r # <<>>
              /\ Len(b) > 11
              /\ SubSeq(b, 1, 11) = WindowBytes(r[1], r[2], r[3], r[4])
              /\ \A i \in 12..Len(b) : b[i][2] = "pix"

\* the first pixel byte of a fill whose rectangle was clamped on both axes
C21_Witness ==
    /\ InCall("FillRect") /\ args[3] > LCD_WIDTH /\ args[4] > LCD_HEIGHT
    /\ Len(ByteSeq) = 12 /\ Len(trace) > 0 /\ IsPixel(trace[Len(trace)])

(***************************************************************************)
(* C24: during GC9A01_Reset (the first calls of GC9A01_Init) chip-select   *)
(* is written low before the reset line is written low and is never        *)
(* written high; when GC9A01_Reset returns the reset line is high and      *)
(* chip-select is low.                                                     *)
(***************************************************************************)
C24_ChipSelectHeldThroughReset ==
    (InCall("Init") /\ pc <= Len(GC9A01_Reset) + 1) =>
       /\ \A n \in {Len(trace)} :
             /\ (n > 0 /\ IsPin(trace[n], LCD_RST_PIN) /\ trace[n].v = 0) =>
                   LastWriteIs(LCD_CS_PIN, 0, n)
             /\ (n > 0 /\ IsPin(trace[n], LCD_CS_PIN)) => trace[n].v = 0
       /\ (pc = Len(GC9A01_Reset) + 1) =>
             /\ pins[LCD_RST_PIN] = 1 /\ pins[LCD_CS_PIN] = 0
             /\ PrevWrite(LCD_RST_PIN, Len(trace)) > 0
             /\ PrevWrite(LCD_CS_PIN, Len(trace)) > 0

\* GC9A01_Reset has returned, entered with chip-select high
C24_Witness ==
    /\ InCall("Init") /\ pc = Len(GC9A01_Reset) + 1
    /\ entry[LCD_CS_PIN] = 1 /\ pins[LCD_CS_PIN] = 0 /\ pins[LCD_RST_PIN] = 1
    /\ clock = 300000

(***************************************************************************)
(* C26: for all arguments, also above 255, above 240 or with x1 = 0 or     *)
(* y1 = 0, a finished GC9A01_SetWindow has handed to the transport 0x2A    *)
(* with data [0, x0 mod 256, 0, (x1-1) mod 256], 0x2B with data            *)
(* [0, y0 mod 256, 0, (y1-1) mod 256] and 0x2C: the high bytes are 0 and   *)
(* no argument makes it return early.                                      *)
(***************************************************************************)
Mod256(v) == ((v % 256) + 256) % 256

C26_WindowBytesTruncated ==
    (Done /\ op = "SetWindow") =>
       ByteSeq = WindowBytes(Mod256(args[1]), Mod256(args[2]),
                             Mod256(args[3] - 1) + 1, Mod256(args[4] - 1) + 1)

\* x0 above 255 and x1 = 0
C26_Witness ==
    /\ Done /\ op = "SetWindow" /\ args[1] = 300 /\ args[3] = 0
    /\ ByteSeq[3][1] = 44 /\ ByteSeq[5][1] = 255

(***************************************************************************)
(* C27: every window GC9A01_FillRect hands to the controller has           *)
(* 0 <= start <= end <= 239 on both axes, whatever the arguments.          *)
(***************************************************************************)
C27_WindowInsidePanel ==
    (InCall("FillRect") /\ Len(ByteSeq) >= 11) =>
       LET b == ByteSeq
       IN  /\ b[2][1] = 0 /\ b[4][1] = 0 /\ b[7][1] = 0 /\ b[9][1] = 0
           /\ 0 <= b[3][1] /\ b[3][1] <= b[5][1] /\ b[5][1] <= 239
           /\ 0 <= b[8][1] /\ b[8][1] <= b[10][1] /\ b[10][1] <= 239

\* a fill with both ends far outside the panel, clamped to the last row and column
C27_Witness ==
    /\ InCall("FillRect") /\ Done /\ args[3] = 65535 /\ args[4] > LCD_HEIGHT
    /\ Len(ByteSeq) > 11 /\ ByteSeq[5][1] = 239 /\ ByteSeq[10][1] = 239

(***************************************************************************)
(* C30: every call of GC9A01_Init, whatever calls were made before it and  *)
(* whatever the transport does, writes the reset line exactly twice (low,  *)
(* then high) before any byte, then hands the script to the transport      *)
(* exactly once; its signal writes, bytes and the delays between them are  *)
(* those of the first call after power-on.                                 *)
(***************************************************************************)
RECURSIVE DelaySum(_, _, _)
\* the delay requested by calls[lo..hi], in microseconds
DelaySum(calls, lo, hi) ==
    IF lo > hi THEN 0
    ELSE IF lo = hi THEN (IF calls[lo].h = "Delay" THEN calls[lo].v ELSE 0)
    ELSE LET mid == (lo + hi) \div 2
         IN  DelaySum(calls, lo, mid) + DelaySum(calls, mid + 1, hi)

\* what a call shows on the wires: its signal writes and bytes, each with the
\* time of the call
Observable(tr) == [i \in 1..Len(tr) |-> <<tr[i].k, tr[i].pin, tr[i].v, tr[i].src, tr[i].t>>]

\* the signal writes and bytes of GC9A01_Init as called right after power-on
PowerOnInit ==
    LET idx == SelectSeq([i \in 1..Len(GC9A01_Init) |-> i],
                         LAMBDA i : GC9A01_Init[i].h # "Delay")
    IN  [n \in 1..Len(idx) |->
           LET c == GC9A01_Init[idx[n]]
           IN  <<IF c.h = "WriteByte" THEN "byte" ELSE "pin", c.pin, c.v, c.src,
                 DelaySum(GC9A01_Init, 1, idx[n])>>]

C30_InitIsFixed ==
    InCall("Init") =>
       /\ \A n \in {Len(trace)} : (n > 0 /\ IsByte(trace[n])) => ResetWrites = <<0, 1>>
       /\ Done =>
             /\ ResetWrites = <<0, 1>>
             /\ ByteSeq = ScriptBytes
             /\ Observable(trace) = PowerOnInit

\* GC9A01_Init is over, called after a fill and with a transport that drops every byte
C30_Witness ==
    /\ Done /\ op = "Init" /\ entry[LCD_DC_PIN] = 1 /\ entry[LCD_CS_PIN] = 1
    /\ spi = "txe_late" /\ Len(ByteSeq) = 184

(***************************************************************************)
(* C22: in the build with LCD_GPIO_INVERTED 0 LCD_HAL_DigitalWrite drives  *)
(* the line to the requested logical level, in the build with the flag 1   *)
(* to the opposite level, any nonzero Value being logical 1; the two       *)
(* builds are asked for the same writes, so every driven line is at        *)
(* opposite levels in the two builds.                                      *)
(***************************************************************************)
C22_InversionPolicy ==
    gpio.pc # "off" =>
       /\ gpio.req[0] = gpio.req[1]
       /\ \A b \in Builds : gpio.req[b].h = "DigitalWrite" =>
             LET logical == IF gpio.req[b].v = 0 THEN 0 ELSE 1
             IN  gpio.phys[b][gpio.req[b].pin] = IF b = 0 THEN logical ELSE 1 - logical
       /\ \A p \in Pins :
             \/ gpio.phys[0][p] = 0 - 1 /\ gpio.phys[1][p] = 0 - 1
             \/ gpio.phys[0][p] \in {0, 1} /\ gpio.phys[1][p] = 1 - gpio.phys[0][p]

\* the backlight asked for with Value 255 after the driver ran
C22_Witness ==
    /\ gpio.pc = "main" /\ gpio.req[0] = DigitalWrite(LCD_BL_PIN, 255)
    /\ gpio.phys[0][LCD_BL_PIN] = 1 /\ gpio.phys[1][LCD_BL_PIN] = 0
    /\ gpio.phys[0][LCD_DC_PIN] = 1 /\ gpio.phys[1][LCD_DC_PIN] = 0

(***************************************************************************)
(* C25: when LCD_HAL_GPIO_Init returns, the logical levels are reset high, *)
(* chip-select high, data/command low, backlight high (the levels driven   *)
(* in the build without inversion, their opposites in the build with it),  *)
(* and these are the levels the driver model starts from.                  *)
(***************************************************************************)
IdleLevels ==
    [p \in Pins |-> IF p = LCD_DC_PIN THEN 0 ELSE 1]

C25_IdleAfterGpioInit ==
    gpio.pc = "ready" =>
       /\ gpio.phys[0] = IdleLevels
       /\ gpio.phys[1] = [p \in Pins |-> 1 - IdleLevels[p]]
       /\ gpio.phys[LCD_GPIO_INVERTED] = LCD_HAL_GPIO_Init

C25_Witness ==
    /\ gpio.pc = "ready" /\ gpio.req[0] = DigitalWrite(LCD_BL_PIN, 1)
    /\ gpio.phys[0][LCD_CS_PIN] = 1 /\ gpio.phys[0][LCD_DC_PIN] = 0

(***************************************************************************)
(* C28: the driver keeps no record of GC9A01_Init having run.  A finished  *)
(* GC9A01_SetWindow or GC9A01_FillRect, whatever calls came before it (none *)
(* at all, GC9A01_Init, other fills), has made the signal writes and       *)
(* written the bytes, at the times, of the same call made first thing      *)
(* after LCD_HAL_Init; no call ends early.                                 *)
(***************************************************************************)
PowerOn == [pins |-> LCD_HAL_GPIO_Init, busy |-> FALSE, clock |-> 0, trace |-> <<>>]

C28_NoInitRecord ==
    (Done /\ op \in {"SetWindow", "FillRect"}) =>
       Observable(trace) = Observable(Run(Program(op, args), PowerOn, "ok").trace)

\* data/command is low with chip-select high only until the first driver call
\* that writes: this GC9A01_FillRect of one pixel ran before any GC9A01_Init
C28_Witness ==
    /\ Done /\ op = "FillRect" /\ entry = LCD_HAL_GPIO_Init
    /\ Len(ByteSeq) = 13 /\ pins[LCD_DC_PIN] = 1

C23_StripesShown ==
    lcd.pc = "shown" =>
       \A y \in 0..(LCD_HEIGHT - 1) :
          lcd.mem[y] = IF (y \div 30) % 2 = 0 THEN 65535 ELSE 0

\* the last column, after a fill that had left rows 20..44 of it in a color
C23_Witness ==
    /\ lcd.pc = "shown" /\ lcd.col = 239 /\ lcd.fills = 1
    /\ lcd.mem[29] = 65535 /\ lcd.mem[30] = 0 /\ lcd.mem[60] = 65535 /\ lcd.mem[239] = 0

(***************************************************************************)
(* C31: in every sequence of driver calls made after LCD_HAL_Init, each    *)
(* byte is handed to the transport with the reset line high.               *)
(***************************************************************************)
C31_NoByteUnderReset ==
    \A n \in {Len(trace)} : (n > 0 /\ IsByte(trace[n])) =>
       /\ trace[n].rst = LCD_HAL_DigitalWrite(1)
       /\ pins[LCD_RST_PIN] = LCD_HAL_DigitalWrite(1)

\* the first byte of GC9A01_Init (0xEF), after the reset pulse
C31_Witness ==
    /\ InCall("Init") /\ ResetWrites = <<0, 1>> /\ Len(ByteSeq) = 1
    /\ IsByte(trace[Len(trace)]) /\ trace[Len(trace)].rst = 1

(***************************************************************************)
(* C33: when a GC9A01_FillRect that writes pixels returns, chip-select is  *)
(* high and data/command is high, whatever the levels at its entry and     *)
(* whatever the transport did (TXE late or never set, BSY never clear).    *)
(***************************************************************************)
C33_FillRectLeavesBusReleased ==
    (Done /\ op = "FillRect" /\ PixelCount(args[1], args[2], args[3], args[4]) > 0) =>
       /\ pins[LCD_CS_PIN] = LCD_HAL_DigitalWrite(1)
       /\ pins[LCD_DC_PIN] = LCD_HAL_DigitalWrite(1)
       /\ Len(trace) > 0 /\ IsPin(trace[Len(trace)], LCD_CS_PIN)

\* entered right after GC9A01_Init (both lines low), the transport busy for ever
C33_Witness ==
    /\ Done /\ op = "FillRect" /\ spi = "bsy_stuck"
    /\ entry[LCD_CS_PIN] = 0 /\ entry[LCD_DC_PIN] = 0
    /\ pins[LCD_CS_PIN] = 1 /\ pins[LCD_DC_PIN] = 1 /\ Len(ByteSeq) > 11

(***************************************************************************)
(* C34: when GC9A01_Init returns, chip-select is low, data/command is low  *)
(* and the reset line is high; no line changes between calls, and a        *)
(* GC9A01_FillRect of an empty rectangle leaves every line as it found it, *)
(* so chip-select stays low until a call writes it.                        *)
(***************************************************************************)
C34_InitLeavesChipSelectLow ==
    /\ (Done /\ op = "Init") =>
          /\ pins[LCD_CS_PIN] = LCD_HAL_DigitalWrite(0)
          /\ pins[LCD_DC_PIN] = LCD_HAL_DigitalWrite(0)
          /\ pins[LCD_RST_PIN] = LCD_HAL_DigitalWrite(1)
    /\ ph = "idle" => pins = entry
    /\ (InCall("FillRect") /\ PixelCount(args[1], args[2], args[3], args[4]) = 0) =>
          Done /\ pins = entry

\* an empty GC9A01_FillRect called right after GC9A01_Init is over
C34_Witness ==
    /\ Done /\ op = "FillRect" /\ prog = <<>>
    /\ entry[LCD_CS_PIN] = 0 /\ entry[LCD_DC_PIN] = 0 /\ entry[LCD_RST_PIN] = 1
    /\ pins[LCD_CS_PIN] = 0

(***************************************************************************)
(* C32: no HAL call of GC9A01_SetWindow or GC9A01_FillRect writes the      *)
(* reset line or the backlight line, and none of GC9A01_Init writes the    *)
(* backlight line: each step of such a call leaves these lines, in both    *)
(* builds, at the level they had.  GC9A01_FillScreen and                   *)
(* GC9A01_DrawStripes make GC9A01_FillRect calls and no HAL call of their  *)
(* own.                                                                    *)
(***************************************************************************)
C32_ResetAndBacklightKept ==
    [][gpio.pc = "run" =>
          LET c == Program(gpio.fn, gpio.a)[gpio.k]
              kept == IF gpio.fn = "Init" THEN {LCD_BL_PIN} ELSE {LCD_RST_PIN, LCD_BL_PIN}
          IN  /\ c.h = "DigitalWrite" => c.pin \notin kept
              /\ \A b \in Builds, p \in kept : gpio'.phys[b][p] = gpio.phys[b][p]]_vars

\* GC9A01_FillRect at its last HAL call, entered with reset and backlight low
C32_Witness ==
    /\ gpio.pc = "run" /\ gpio.fn = "FillRect"
    /\ gpio.k = Len(Program(gpio.fn, gpio.a))
    /\ gpio.phys[0][LCD_RST_PIN] = 0 /\ gpio.phys[0][LCD_BL_PIN] = 0
    /\ gpio.phys[0][LCD_DC_PIN] = 1

(***************************************************************************)
(* C35 (as claimed): when the wait for TXE of LCD_HAL_SPI_WriteByte is     *)
(* over, the step that follows writes the data register if TXE was read    *)
(* set on the poll that ended the wait, the last poll of the budget        *)
(* included, and only then.                                                *)
(***************************************************************************)
C35_WrittenIffReady ==
    [][hal.pc = "check" => (hal'.wrote <=> hal.txe)]_vars

(***************************************************************************)
(* C36 (as claimed): LCD_HAL_SPI_CalcPrescaler returns br in 0..7 and,     *)
(* unless br = 7, the SPI clock apb_clock / 2^(br + 1) is not above the    *)
(* requested spi_speed.                                                    *)
(***************************************************************************)
C36_ClockNotAboveRequest ==
    presc.pc = "ret" =>
       /\ presc.br \in 0..7
       /\ presc.br # 7 => presc.apb_clock \div (2 ^ (presc.br + 1)) <= presc.spi_speed

TypeOK ==
    /\ pins \in [Pins -> {0, 1}]
    /\ busy \in BOOLEAN
    /\ ph \in {"idle", "run"}
    /\ op \in {"none", "Init", "SetWindow", "FillRect"}
    /\ spi \in SpiModes
    /\ pc \in 1..(Len(prog) + 1)
====
